---- MODULE Spec2Model ----
(***************************************************************************)
(* The HappyHarvest bot.  Its planning core (farming_strategy.py) is the   *)
(* FarmingStrategy object with its rolling market history, and the         *)
(* operations analyze_market, recommend_crop, find_empty_plots,            *)
(* find_harvestable_crops, should_expand_land, calculate_expansion_roi,    *)
(* get_expansion_recommendation and get_farming_plan, applied to profile / *)
(* land / crops snapshots.  Around it (farm_bot.py) run the water, token   *)
(* and farming loops, the executor of the plan and the status display,     *)
(* sharing the statistics and the stop event.  Below them (api_client.py)  *)
(* is the HTTP client: _make_request with its retries and backoff, and the *)
(* token refresh an authenticated request starts.                          *)
(*                                                                         *)
(* Representation.  A Python dict is a function on its keys; d.get(k, v)   *)
(* is Get(d, k, v); the empty dict {} is EmptyDict; None is the record     *)
(* None.  Water amounts and crop costs are integers, as in the game.       *)
(* Efficiencies, prices and credits are fixed-point integers in hundredths *)
(* (efficiency 40 is 0.40), and every float comparison of the source is    *)
(* made exactly, by cross-multiplication (x > avg * 1.2 with avg = s / n   *)
(* is 10 * x * n > 12 * s).  A ratio the source returns as a float is the  *)
(* pair <<numerator, denominator>>.  datetime.now() reads the logical      *)
(* clock `now`, which advances by one with each analysis.                  *)
(***************************************************************************)
EXTENDS Integers, Sequences, FiniteSets, TLC

VARIABLES
    profile,          \* the profile snapshot handed to the strategy         (farm_bot.py:128)
    land_data,        \* the land snapshot                                   (farm_bot.py:129)
    crops_data,       \* the crops / market snapshot                         (farm_bot.py:130)
    market_history,   \* FarmingStrategy.market_history                      (farming_strategy.py:14)
    now,              \* the clock datetime.now() reads
    ret,              \* the last call on the strategy object and what it returned
    running,          \* HappyHarvestBot.running                             (farm_bot.py:26)
    stop_event,       \* HappyHarvestBot.stop_event: is the event set        (farm_bot.py:47)
    pc,               \* where each background thread stands in its loop     (farm_bot.py:278-282)
    stats,            \* HappyHarvestBot.stats, without start_time           (farm_bot.py:36-43)
    display,          \* the statistics the status display last read         (farm_bot.py:226-230)
    executing,        \* _execute_farming_plan: actions, the plan's list     (farm_bot.py:152)
    action_index,     \* _execute_farming_plan: the position of the for loop (farm_bot.py:154)
    result,           \* _execute_farming_plan: the response in hand         (farm_bot.py:159-187)
    attempted,        \* history: the actions tried in this cycle, and how each ended
    succeeded,        \* history: the successful API calls so far, counted as stats counts
    late,             \* history: per loop, the iterations begun after stop_event was set
    api,              \* HappyHarvestAPI: credentials, access_token, token_expires_at (api_client.py:14-18)
    requests          \* the activations of _make_request, innermost last, with their history

bot_vars == <<running, stop_event, pc, stats, display, executing, action_index, result,
              attempted, succeeded, late>>

client_vars == <<api, requests>>

vars == <<profile, land_data, crops_data, market_history, now, ret, bot_vars, client_vars>>

\* the background threads of start()
Threads == {"water", "token", "farming"}

\* self.stats of __init__: every counter 0
NoStats ==
    [water_collected |-> 0, crops_planted |-> 0, crops_harvested |-> 0,
     land_expansions |-> 0, total_credits_earned |-> 0]

\* HappyHarvestBot.__init__: not running, the event clear, no thread started
BotConstructed ==
    /\ running = FALSE
    /\ stop_event = FALSE
    /\ pc = [t \in Threads |-> "unstarted"]
    /\ stats = NoStats
    /\ display = NoStats
    /\ executing = <<>>
    /\ action_index = 0
    /\ result = [k \in {} |-> 0]
    /\ attempted = <<>>
    /\ succeeded = NoStats
    /\ late = [t \in Threads |-> 0]

\* HappyHarvestAPI.__init__ at clock t: no token, token_expires_at = datetime.now()
HappyHarvestAPI(client_id, client_secret, t) ==
    [client_id |-> client_id, client_secret |-> client_secret,
     access_token |-> "", token_expires_at |-> t]

\* the client constructed with the given credentials, and no request under way
ApiConstructed(client_id, client_secret) ==
    /\ api = HappyHarvestAPI(client_id, client_secret, 0)
    /\ requests = <<>>

-----------------------------------------------------------------------------
(* Constants of config.py and farming_strategy.py *)

LAND_CLAIM_COST == 5
MIN_WATER_RESERVE == 1
\* 1.1, as the ratio 11 / 10
MARKET_PREMIUM_THRESHOLD == <<11, 10>>
\* len(self.market_history) > 60
MAX_HISTORY == 60
\* water_cost <= 20: the "affordable" bucket of analyze_market
AFFORDABLE_WATER_COST == 20
\* float('inf'), the default of a missing nextExpansionCost: above every amount of the model
INF == 10000000

-----------------------------------------------------------------------------
(* Python values *)

EmptyDict == [k \in {} |-> 0]
None == [none |-> TRUE]

\* d.get(k, default)
Get(d, k, default) == IF k \in DOMAIN d THEN d[k] ELSE default

\* the truth value of a dict-or-None: None and {} are false
Truthy(d) == d # None /\ DOMAIN d # {}

Max(a, b) == IF a >= b THEN a ELSE b

-----------------------------------------------------------------------------
(* analyze_market *)

RECURSIVE SumEfficiency(_)
\* sum(crop.get('efficiency', 0) for crop in crops)
SumEfficiency(crops) ==
    IF Len(crops) = 0 THEN 0
    ELSE Get(Head(crops), "efficiency", 0) + SumEfficiency(Tail(crops))

\* Opportunity with the price rule tried before the efficiency rule
Opportunity_PriceFirst(crop, sum_efficiency, n, avg_price) ==
    LET efficiency   == Get(crop, "efficiency", 0)
        market_price == Get(crop, "marketPrice", 0)
        water_cost   == Get(crop, "waterCost", 0)
    IN  IF market_price * MARKET_PREMIUM_THRESHOLD[2] > avg_price * MARKET_PREMIUM_THRESHOLD[1]
        THEN [crop |-> crop, reason |-> "Premium price", priority |-> "MEDIUM"]
        ELSE IF 10 * efficiency * n > 12 * sum_efficiency
        THEN [crop |-> crop, reason |-> "High efficiency", priority |-> "HIGH"]
        ELSE IF water_cost <= AFFORDABLE_WATER_COST
        THEN [crop |-> crop, reason |-> "Affordable", priority |-> "MEDIUM"]
        ELSE [crop |-> crop, reason |-> "Standard crop", priority |-> "LOW"]

\* The body of the loop over crops: the opportunity one crop is appended as.
\* sum_efficiency / n is avg_efficiency.
Opportunity(crop, sum_efficiency, n, avg_price) ==
    LET efficiency   == Get(crop, "efficiency", 0)
        market_price == Get(crop, "marketPrice", 0)
        water_cost   == Get(crop, "waterCost", 0)
    IN  IF 10 * efficiency * n > 12 * sum_efficiency
        THEN [crop |-> crop, reason |-> "High efficiency", priority |-> "HIGH"]
        ELSE IF market_price * MARKET_PREMIUM_THRESHOLD[2] > avg_price * MARKET_PREMIUM_THRESHOLD[1]
        THEN [crop |-> crop, reason |-> "Premium price", priority |-> "MEDIUM"]
        ELSE IF water_cost <= AFFORDABLE_WATER_COST
        THEN [crop |-> crop, reason |-> "Affordable", priority |-> "MEDIUM"]
        ELSE [crop |-> crop, reason |-> "Standard crop", priority |-> "LOW"]

\* for crop in crops: ... analysis['opportunities'].append(...)
Opportunities(crops, avg_price) ==
    [i \in 1..Len(crops) |->
        Opportunity(crops[i], SumEfficiency(crops), Len(crops), avg_price)]

\* StoreHistory that evicts the newest entry (pop() for pop(0))
StoreHistory_EvictNewest(history, analysis) ==
    LET appended == Append(history, analysis)
    IN  IF Len(appended) > MAX_HISTORY THEN SubSeq(appended, 1, MAX_HISTORY) ELSE appended

\* self.market_history.append(analysis); if len(...) > 60: pop(0)
StoreHistory(history, analysis) ==
    LET appended == Append(history, analysis)
    IN  IF Len(appended) > MAX_HISTORY THEN Tail(appended) ELSE appended

\* analyze_market that consults the history: a feed equal to the one analysed last is
\* not analysed again, and {} is returned for it
analyze_market_SkipRepeat(crops_response, history, t) ==
    IF "crops" \notin DOMAIN crops_response
    THEN [raised |-> "", value |-> EmptyDict, market_history |-> history]
    ELSE LET crops       == crops_response["crops"]
             market_info == Get(crops_response, "marketInfo", EmptyDict)
         IN  IF Len(crops) = 0
             THEN [raised |-> "ZeroDivisionError", value |-> EmptyDict,
                   market_history |-> history]
             ELSE IF Len(history) > 0 /\ history[Len(history)].crops = crops
             THEN [raised |-> "", value |-> EmptyDict, market_history |-> history]
             ELSE LET analysis ==
                          [timestamp       |-> t,
                           average_price   |-> Get(market_info, "averagePrice", 0),
                           best_efficiency |-> Get(market_info, "bestEfficiency", 0),
                           opportunities   |-> Opportunities(crops,
                                                  Get(market_info, "averagePrice", 0)),
                           recommendations |-> <<>>,
                           crops           |-> crops]
                  IN  [raised |-> "", value |-> analysis,
                       market_history |-> StoreHistory(history, analysis)]

\* analyze_market on a strategy object whose history is `history`, at clock t:
\* what it raises ("" for a normal return), what it returns, and the history it leaves.
analyze_market(crops_response, history, t) ==
    IF "crops" \notin DOMAIN crops_response
    THEN [raised |-> "", value |-> EmptyDict, market_history |-> history]
    ELSE LET crops       == crops_response["crops"]
             market_info == Get(crops_response, "marketInfo", EmptyDict)
         IN  IF Len(crops) = 0
             THEN \* sum(...) / len(crops) with len(crops) = 0
                  [raised |-> "ZeroDivisionError", value |-> EmptyDict,
                   market_history |-> history]
             ELSE LET analysis ==
                          [timestamp       |-> t,
                           average_price   |-> Get(market_info, "averagePrice", 0),
                           best_efficiency |-> Get(market_info, "bestEfficiency", 0),
                           opportunities   |-> Opportunities(crops,
                                                  Get(market_info, "averagePrice", 0)),
                           recommendations |-> <<>>,
                           crops           |-> crops]
                  IN  [raised |-> "", value |-> analysis,
                       market_history |-> StoreHistory(history, analysis)]

-----------------------------------------------------------------------------
(* recommend_crop *)

\* MinReserve without the absolute floors: the fraction of the base reserve alone
MinReserve_NoFloor(land_size) ==
    IF land_size >= 3 THEN MIN_WATER_RESERVE \div 4
    ELSE IF land_size >= 2 THEN MIN_WATER_RESERVE \div 3
    ELSE MIN_WATER_RESERVE \div 2

\* min_reserve: the water kept back, by the number of empty plots
MinReserve(land_size) ==
    IF land_size >= 3 THEN Max(3, MIN_WATER_RESERVE \div 4)
    ELSE IF land_size >= 2 THEN Max(5, MIN_WATER_RESERVE \div 3)
    ELSE Max(8, MIN_WATER_RESERVE \div 2)

\* the sort key of an opportunity: (efficiency, marketPrice)
SortKey(opp) == <<Get(opp.crop, "efficiency", 0), Get(opp.crop, "marketPrice", 0)>>

\* tuple comparison k1 > k2
KeyGreater(k1, k2) == k1[1] > k2[1] \/ (k1[1] = k2[1] /\ k1[2] > k2[2])

RECURSIVE InsertDescending_EqualFirst(_, _)
\* InsertDescending of a sort that is not stable: x goes before the elements of its key
InsertDescending_EqualFirst(sorted, x) ==
    IF Len(sorted) = 0 THEN <<x>>
    ELSE IF ~KeyGreater(SortKey(Head(sorted)), SortKey(x))
         THEN <<x>> \o sorted
         ELSE <<Head(sorted)>> \o InsertDescending_EqualFirst(Tail(sorted), x)

RECURSIVE InsertDescending(_, _)
\* x put into a list sorted by descending key, behind every element whose key is
\* not smaller: list.sort(reverse=True) keeps the order of equal keys
InsertDescending(sorted, x) ==
    IF Len(sorted) = 0 THEN <<x>>
    ELSE IF KeyGreater(SortKey(x), SortKey(Head(sorted)))
         THEN <<x>> \o sorted
         ELSE <<Head(sorted)>> \o InsertDescending(Tail(sorted), x)

RECURSIVE SortDescending(_)
\* affordable_crops.sort(key=..., reverse=True)
SortDescending(opps) ==
    IF Len(opps) = 0 THEN <<>>
    ELSE InsertDescending(SortDescending(SubSeq(opps, 1, Len(opps) - 1)), opps[Len(opps)])

\* the opportunities recommend_crop chooses among: those of the analysis, or every
\* crop of the analysis as a MEDIUM opportunity when it has none
Candidates(market_analysis) ==
    LET opportunities == Get(market_analysis, "opportunities", <<>>)
        crops_data_   == Get(market_analysis, "crops", <<>>)
    IN  IF Len(opportunities) # 0 THEN opportunities
        ELSE [i \in 1..Len(crops_data_) |->
                 [crop |-> crops_data_[i], priority |-> "MEDIUM", reason |-> "Standard crop"]]

\* [opp for opp in opportunities if opp['crop'].get('waterCost', 0) <= affordable_water]
AffordableCrops(opportunities, affordable_water) ==
    SelectSeq(opportunities, LAMBDA opp : Get(opp.crop, "waterCost", 0) <= affordable_water)

\* recommend_crop: the crop to plant, or None
recommend_crop(available_water, land_size, market_analysis) ==
    LET min_reserve      == MinReserve(land_size)
        affordable_water == available_water - min_reserve
        opportunities    == Candidates(market_analysis)
        affordable_crops == AffordableCrops(opportunities, affordable_water)
    IN  IF available_water < min_reserve THEN None
        ELSE IF Len(opportunities) = 0 THEN None
        ELSE IF Len(affordable_crops) = 0 THEN None
        ELSE SortDescending(affordable_crops)[1].crop

-----------------------------------------------------------------------------
(* find_empty_plots, find_harvestable_crops *)

RECURSIVE Cells(_, _)
\* for row_idx, row in enumerate(grid_data): for col_idx, cell in enumerate(row):
\* the cells in scan order, from the row at (1-based) position r on
Cells(grid_data, r) ==
    IF r > Len(grid_data) THEN <<>>
    ELSE [c \in 1..Len(grid_data[r]) |->
             [row |-> r - 1, col |-> c - 1, cell |-> grid_data[r][c]]]
         \o Cells(grid_data, r + 1)

\* Unclaimed that takes land without a landClaimed field for claimed land
Unclaimed_MissingIsClaimed(land) == ~Get(land, "landClaimed", TRUE)

\* not land_data.get('landClaimed')
Unclaimed(land) == ~Get(land, "landClaimed", FALSE)

\* find_empty_plots without the landClaimed check
find_empty_plots_AnyLand(land) ==
    LET empty == SelectSeq(Cells(Get(land, "landData", <<>>), 1), LAMBDA x : x.cell = 0)
    IN  [i \in 1..Len(empty) |-> <<empty[i].row, empty[i].col>>]

\* find_empty_plots: the (row, col) of every cell equal to 0, in scan order
find_empty_plots(land) ==
    IF Unclaimed(land) THEN <<>>
    ELSE LET empty == SelectSeq(Cells(Get(land, "landData", <<>>), 1),
                                LAMBDA x : x.cell = 0)
         IN  [i \in 1..Len(empty) |-> <<empty[i].row, empty[i].col>>]

RECURSIVE CropLookup(_, _)
\* crop_lookup.get(cell), crop_lookup built by crop_lookup[crop.get('id')] = crop:
\* the last crop of the list with that id, or None
CropLookup(crops, cell) ==
    IF Len(crops) = 0 THEN None
    ELSE LET last == crops[Len(crops)]
         IN  IF "id" \in DOMAIN last /\ last["id"] = cell THEN last
             ELSE CropLookup(SubSeq(crops, 1, Len(crops) - 1), cell)

\* find_harvestable_crops that skips a cell whose code matches no crop id
find_harvestable_crops_SkipUnknown(land, crops_response) ==
    IF Unclaimed(land) THEN <<>>
    ELSE LET crops  == Get(crops_response, "crops", <<>>)
             mature == SelectSeq(Cells(Get(land, "landData", <<>>), 1),
                                 LAMBDA x : x.cell >= 2 /\ Truthy(CropLookup(crops, x.cell)))
         IN  [i \in 1..Len(mature) |->
                 [row  |-> mature[i].row,
                  col  |-> mature[i].col,
                  crop |-> CropLookup(crops, mature[i].cell)]]

\* find_harvestable_crops: (row, col, crop_info) of every cell >= 2, in scan order
find_harvestable_crops(land, crops_response) ==
    IF Unclaimed(land) THEN <<>>
    ELSE LET crops  == Get(crops_response, "crops", <<>>)
             mature == SelectSeq(Cells(Get(land, "landData", <<>>), 1),
                                 LAMBDA x : x.cell >= 2)
         IN  [i \in 1..Len(mature) |->
                 LET crop_info == CropLookup(crops, mature[i].cell)
                 IN  [row  |-> mature[i].row,
                      col  |-> mature[i].col,
                      crop |-> IF Truthy(crop_info) THEN crop_info
                               ELSE [name |-> "Unknown Crop", id |-> mature[i].cell]]]

-----------------------------------------------------------------------------
(* calculate_expansion_roi, should_expand_land *)

\* NewTiles that rounds half a tile up
NewTiles_RoundUp(current_land_tiles) ==
    IF current_land_tiles = 1 THEN 3
    ELSE IF current_land_tiles = 4 THEN 5
    ELSE IF current_land_tiles = 9 THEN 7
    ELSE Max(1, (current_land_tiles + 1) \div 2)

\* new_tiles: the tiles the next expansion adds
NewTiles(current_land_tiles) ==
    IF current_land_tiles = 1 THEN 3
    ELSE IF current_land_tiles = 4 THEN 5
    ELSE IF current_land_tiles = 9 THEN 7
    ELSE Max(1, current_land_tiles \div 2)

\* calculate_expansion_roi that computes with float('inf') as with any other cost
calculate_expansion_roi_NoSentinel(land, current_water) ==
    LET next_expansion_cost == Get(land, "nextExpansionCost", INF)
        current_land_tiles  == Get(land, "landTiles", 0)
    IN  IF next_expansion_cost > 0
        THEN <<NewTiles(current_land_tiles) * 72 * 100, 10 * next_expansion_cost * 2>>
        ELSE <<0, 1>>

\* calculate_expansion_roi, as the ratio <<numerator, denominator>>:
\*   annual_return = new_tiles * (0.15 / 0.5) * 24 = new_tiles * 72 / 10
\*   expansion_cost_in_credits = next_expansion_cost * 0.02 = next_expansion_cost * 2 / 100
calculate_expansion_roi(land, current_water) ==
    LET next_expansion_cost == Get(land, "nextExpansionCost", INF)
        current_land_tiles  == Get(land, "landTiles", 0)
    IN  IF next_expansion_cost = INF THEN <<0, 1>>
        ELSE IF next_expansion_cost > 0
             THEN <<NewTiles(current_land_tiles) * 72 * 100, 10 * next_expansion_cost * 2>>
             ELSE <<0, 1>>

\* roi > p / 100
RoiAbove(roi, p) == roi[1] * 100 > p * roi[2]

\* should_expand_land whose 1x1 tier ("expand when we have 2/3 of the cost") is tried
\* before the affordability check
should_expand_land_TierFirst(prof, land) ==
    LET current_water       == Get(prof, "score", 0)
        next_expansion_cost == Get(land, "nextExpansionCost", INF)
        current_land_tiles  == Get(land, "landTiles", 0)
        expansion_roi       == calculate_expansion_roi(land, current_water)
    IN  IF Unclaimed(land) THEN current_water >= LAND_CLAIM_COST
        ELSE IF current_land_tiles = 1
             THEN 100 * current_water >= 67 * next_expansion_cost
        ELSE IF current_water < next_expansion_cost THEN FALSE
        ELSE IF current_land_tiles <= 4
             THEN current_water >= next_expansion_cost + MIN_WATER_RESERVE
                  /\ RoiAbove(expansion_roi, 15)
        ELSE IF current_land_tiles <= 9
             THEN current_water >= next_expansion_cost + (MIN_WATER_RESERVE * 2)
                  /\ RoiAbove(expansion_roi, 25)
        ELSE current_water >= next_expansion_cost + 100
             /\ RoiAbove(expansion_roi, 35)

\* should_expand_land whose 3x3 tier keeps one reserve back, as the 2x2 tier does
should_expand_land_SingleReserve(prof, land) ==
    LET current_water       == Get(prof, "score", 0)
        next_expansion_cost == Get(land, "nextExpansionCost", INF)
        current_land_tiles  == Get(land, "landTiles", 0)
        expansion_roi       == calculate_expansion_roi(land, current_water)
    IN  IF Unclaimed(land) THEN current_water >= LAND_CLAIM_COST
        ELSE IF current_water < next_expansion_cost THEN FALSE
        ELSE IF current_land_tiles = 1
             THEN 100 * current_water >= 67 * next_expansion_cost
        ELSE IF current_land_tiles <= 4
             THEN current_water >= next_expansion_cost + MIN_WATER_RESERVE
                  /\ RoiAbove(expansion_roi, 15)
        ELSE IF current_land_tiles <= 9
             THEN current_water >= next_expansion_cost + MIN_WATER_RESERVE
                  /\ RoiAbove(expansion_roi, 25)
        ELSE current_water >= next_expansion_cost + 100
             /\ RoiAbove(expansion_roi, 35)

\* should_expand_land
should_expand_land(prof, land) ==
    LET current_water       == Get(prof, "score", 0)
        next_expansion_cost == Get(land, "nextExpansionCost", INF)
        current_land_tiles  == Get(land, "landTiles", 0)
        expansion_roi       == calculate_expansion_roi(land, current_water)
    IN  IF Unclaimed(land) THEN current_water >= LAND_CLAIM_COST
        ELSE IF current_water < next_expansion_cost THEN FALSE
        ELSE IF current_land_tiles = 1
             THEN 100 * current_water >= 67 * next_expansion_cost
        ELSE IF current_land_tiles <= 4
             THEN current_water >= next_expansion_cost + MIN_WATER_RESERVE
                  /\ RoiAbove(expansion_roi, 15)
        ELSE IF current_land_tiles <= 9
             THEN current_water >= next_expansion_cost + (MIN_WATER_RESERVE * 2)
                  /\ RoiAbove(expansion_roi, 25)
        ELSE current_water >= next_expansion_cost + 100
             /\ RoiAbove(expansion_roi, 35)

-----------------------------------------------------------------------------
(* get_expansion_recommendation *)

\* a reasoning string: its text, and the water amount and the roi formatted into it
\* (0 and <<0, 1>> where the text formats none)
Reasoning(text, amount, roi) == [text |-> text, amount |-> amount, roi |-> roi]

\* get_expansion_recommendation
get_expansion_recommendation(prof, land) ==
    LET current_water       == Get(prof, "score", 0)
        next_expansion_cost == Get(land, "nextExpansionCost", INF)
        current_land_tiles  == Get(land, "landTiles", 0)
        should_expand       == should_expand_land(prof, land)
        roi                 == calculate_expansion_roi(land, current_water)
        reasoning ==
            IF next_expansion_cost = INF
            THEN Reasoning("No expansion available", 0, <<0, 1>>)
            ELSE IF current_water < next_expansion_cost
            THEN Reasoning("Need more water", next_expansion_cost - current_water, <<0, 1>>)
            ELSE IF should_expand
            THEN IF current_land_tiles = 1
                 THEN Reasoning("HIGH PRIORITY", next_expansion_cost, <<0, 1>>)
                 ELSE Reasoning("Good ROI", next_expansion_cost, roi)
            ELSE Reasoning("Low ROI", 0, roi)
    IN  [should_expand  |-> should_expand,
         current_water  |-> current_water,
         expansion_cost |-> next_expansion_cost,
         current_tiles  |-> current_land_tiles,
         roi            |-> roi,
         reasoning      |-> reasoning]

-----------------------------------------------------------------------------
(* get_farming_plan *)

\* step 1: one harvest action per harvestable cell
HarvestActions(harvestable) ==
    [i \in 1..Len(harvestable) |->
        [type |-> "harvest", priority |-> "CRITICAL",
         row |-> harvestable[i].row, col |-> harvestable[i].col,
         crop |-> harvestable[i].crop]]

\* ExpansionDecision that always waits for the harvest on a 1-tile farm with
\* harvestable crops
ExpansionDecision_AlwaysWait(prof, land, harvestable, empty_plots) ==
    LET current_water       == Get(prof, "score", 0)
        current_land_tiles  == Get(land, "landTiles", 0)
        next_expansion_cost == Get(land, "nextExpansionCost", INF)
    IN  IF Unclaimed(land) /\ current_water >= LAND_CLAIM_COST
        THEN [should_expand |-> TRUE, expansion_reasoning |-> "Claim initial land"]
        ELSE IF should_expand_land(prof, land)
        THEN IF Len(harvestable) # 0 /\ current_land_tiles = 1
             THEN [should_expand |-> FALSE, expansion_reasoning |-> "Wait for harvest"]
             ELSE IF Len(harvestable) = 0 /\ Len(empty_plots) # 0
             THEN IF current_water >= next_expansion_cost + 20
                  THEN [should_expand |-> TRUE,
                        expansion_reasoning |-> "Plenty of water - expand for more capacity"]
                  ELSE [should_expand |-> FALSE,
                        expansion_reasoning |-> "Use current space efficiently first"]
             ELSE [should_expand |-> TRUE,
                   expansion_reasoning |-> "Standard expansion criteria met"]
        ELSE [should_expand |-> FALSE, expansion_reasoning |-> ""]

\* ExpansionDecision that projects the water after the harvest before it asks
\* should_expand_land
ExpansionDecision_ProjectionFirst(prof, land, harvestable, empty_plots) ==
    LET current_water       == Get(prof, "score", 0)
        current_land_tiles  == Get(land, "landTiles", 0)
        next_expansion_cost == Get(land, "nextExpansionCost", INF)
    IN  IF Unclaimed(land) /\ current_water >= LAND_CLAIM_COST
        THEN [should_expand |-> TRUE, expansion_reasoning |-> "Claim initial land"]
        ELSE IF ~Unclaimed(land) /\ Len(harvestable) # 0 /\ current_land_tiles = 1
        THEN IF 2 * current_water + 15 * Len(harvestable) >= 2 * next_expansion_cost
             THEN [should_expand |-> TRUE,
                   expansion_reasoning |-> "Expand after harvest - will have enough water"]
             ELSE [should_expand |-> FALSE,
                   expansion_reasoning |-> "Wait for harvest"]
        ELSE IF should_expand_land(prof, land)
        THEN IF Len(harvestable) = 0 /\ Len(empty_plots) # 0
             THEN IF current_water >= next_expansion_cost + 20
                  THEN [should_expand |-> TRUE,
                        expansion_reasoning |-> "Plenty of water - expand for more capacity"]
                  ELSE [should_expand |-> FALSE,
                        expansion_reasoning |-> "Use current space efficiently first"]
             ELSE [should_expand |-> TRUE,
                   expansion_reasoning |-> "Standard expansion criteria met"]
        ELSE [should_expand |-> FALSE, expansion_reasoning |-> ""]

\* ExpansionDecision that asks for no water beyond should_expand_land when there are
\* empty plots and nothing to harvest
ExpansionDecision_NoHeadroom(prof, land, harvestable, empty_plots) ==
    LET current_water       == Get(prof, "score", 0)
        current_land_tiles  == Get(land, "landTiles", 0)
        next_expansion_cost == Get(land, "nextExpansionCost", INF)
    IN  IF Unclaimed(land) /\ current_water >= LAND_CLAIM_COST
        THEN [should_expand |-> TRUE, expansion_reasoning |-> "Claim initial land"]
        ELSE IF should_expand_land(prof, land)
        THEN IF Len(harvestable) # 0 /\ current_land_tiles = 1
             THEN IF 2 * current_water + 15 * Len(harvestable) >= 2 * next_expansion_cost
                  THEN [should_expand |-> TRUE,
                        expansion_reasoning |-> "Expand after harvest - will have enough water"]
                  ELSE [should_expand |-> FALSE,
                        expansion_reasoning |-> "Wait for harvest"]
             ELSE [should_expand |-> TRUE,
                   expansion_reasoning |-> "Standard expansion criteria met"]
        ELSE [should_expand |-> FALSE, expansion_reasoning |-> ""]

\* step 2: should_expand and expansion_reasoning.
\* water_after_harvest = current_water + len(harvestable) * 0.15 * 50 >= next_expansion_cost
\* is 2 * current_water + 15 * len(harvestable) >= 2 * next_expansion_cost.
ExpansionDecision(prof, land, harvestable, empty_plots) ==
    LET current_water       == Get(prof, "score", 0)
        current_land_tiles  == Get(land, "landTiles", 0)
        next_expansion_cost == Get(land, "nextExpansionCost", INF)
    IN  IF Unclaimed(land) /\ current_water >= LAND_CLAIM_COST
        THEN [should_expand |-> TRUE, expansion_reasoning |-> "Claim initial land"]
        ELSE IF should_expand_land(prof, land)
        THEN IF Len(harvestable) # 0 /\ current_land_tiles = 1
             THEN IF 2 * current_water + 15 * Len(harvestable) >= 2 * next_expansion_cost
                  THEN [should_expand |-> TRUE,
                        expansion_reasoning |-> "Expand after harvest - will have enough water"]
                  ELSE [should_expand |-> FALSE,
                        expansion_reasoning |-> "Wait for harvest"]
             ELSE IF Len(harvestable) = 0 /\ Len(empty_plots) # 0
             THEN IF current_water >= next_expansion_cost + 20
                  THEN [should_expand |-> TRUE,
                        expansion_reasoning |-> "Plenty of water - expand for more capacity"]
                  ELSE [should_expand |-> FALSE,
                        expansion_reasoning |-> "Use current space efficiently first"]
             ELSE [should_expand |-> TRUE,
                   expansion_reasoning |-> "Standard expansion criteria met"]
        ELSE [should_expand |-> FALSE, expansion_reasoning |-> ""]

\* LandActions that expands at HIGH priority whether or not there are empty plots
LandActions_AlwaysHigh(land, decision, empty_plots) ==
    IF ~decision.should_expand THEN <<>>
    ELSE IF Unclaimed(land)
         THEN << [type |-> "claim_land", priority |-> "HIGH"] >>
         ELSE << [type |-> "expand_land", priority |-> "HIGH",
                  description |-> decision.expansion_reasoning] >>

\* LandActions that does not ask whether should_expand holds
LandActions_Unasked(land, decision, empty_plots) ==
    IF Unclaimed(land)
    THEN << [type |-> "claim_land", priority |-> "HIGH"] >>
    ELSE << [type |-> "expand_land",
             priority |-> IF Len(empty_plots) = 0 THEN "HIGH" ELSE "MEDIUM",
             description |-> decision.expansion_reasoning] >>

\* step 2, the action: claim_land or expand_land when should_expand
LandActions(land, decision, empty_plots) ==
    IF ~decision.should_expand THEN <<>>
    ELSE IF Unclaimed(land)
         THEN << [type |-> "claim_land", priority |-> "HIGH"] >>
         ELSE << [type |-> "expand_land",
                  priority |-> IF Len(empty_plots) = 0 THEN "HIGH" ELSE "MEDIUM",
                  description |-> decision.expansion_reasoning] >>

\* PlantActions that never lowers the priority of planting
PlantActions_AlwaysMedium(prof, land, decision, harvestable, empty_plots, market_analysis) ==
    IF Len(empty_plots) = 0 THEN <<>>
    ELSE LET recommended_crop ==
                 recommend_crop(Get(prof, "score", 0), Len(empty_plots), market_analysis)
         IN  IF ~Truthy(recommended_crop) THEN <<>>
             ELSE << [type |-> "plant", priority |-> "MEDIUM",
                      row |-> empty_plots[1][1], col |-> empty_plots[1][2],
                      crop |-> recommended_crop] >>

\* PlantActions that plants on the last empty plot
PlantActions_LastPlot(prof, land, decision, harvestable, empty_plots, market_analysis) ==
    IF Len(empty_plots) = 0 THEN <<>>
    ELSE LET recommended_crop ==
                 recommend_crop(Get(prof, "score", 0), Len(empty_plots), market_analysis)
             plant_priority ==
                 IF Len(harvestable) # 0 THEN "LOW"
                 ELSE IF decision.should_expand /\ Get(land, "landTiles", 0) = 1 THEN "LOW"
                 ELSE "MEDIUM"
         IN  IF ~Truthy(recommended_crop) THEN <<>>
             ELSE << [type |-> "plant", priority |-> plant_priority,
                      row |-> empty_plots[Len(empty_plots)][1],
                      col |-> empty_plots[Len(empty_plots)][2],
                      crop |-> recommended_crop] >>

\* step 3: one plant action on the first empty plot, when a crop is recommended
PlantActions(prof, land, decision, harvestable, empty_plots, market_analysis) ==
    IF Len(empty_plots) = 0 THEN <<>>
    ELSE LET recommended_crop ==
                 recommend_crop(Get(prof, "score", 0), Len(empty_plots), market_analysis)
             plant_priority ==
                 IF Len(harvestable) # 0 THEN "LOW"
                 ELSE IF decision.should_expand /\ Get(land, "landTiles", 0) = 1 THEN "LOW"
                 ELSE "MEDIUM"
         IN  IF ~Truthy(recommended_crop) THEN <<>>
             ELSE << [type |-> "plant", priority |-> plant_priority,
                      row |-> empty_plots[1][1], col |-> empty_plots[1][2],
                      crop |-> recommended_crop] >>

\* EmittedActions that appends the plant action before the land action
EmittedActions_PlantFirst(prof, land, crops_response, market_analysis) ==
    LET harvestable == find_harvestable_crops(land, crops_response)
        empty_plots == find_empty_plots(land)
        decision    == ExpansionDecision(prof, land, harvestable, empty_plots)
    IN  HarvestActions(harvestable)
        \o PlantActions(prof, land, decision, harvestable, empty_plots, market_analysis)
        \o LandActions(land, decision, empty_plots)

\* plan['actions'] before the sort: harvests, then the land action, then the plant action
EmittedActions(prof, land, crops_response, market_analysis) ==
    LET harvestable == find_harvestable_crops(land, crops_response)
        empty_plots == find_empty_plots(land)
        decision    == ExpansionDecision(prof, land, harvestable, empty_plots)
    IN  HarvestActions(harvestable)
        \o LandActions(land, decision, empty_plots)
        \o PlantActions(prof, land, decision, harvestable, empty_plots, market_analysis)

\* PriorityRank of a descending sort (sort(..., reverse=True))
PriorityRank_Reversed(action) ==
    LET priority == Get(action, "priority", "MEDIUM")
    IN  IF priority = "CRITICAL" THEN 3
        ELSE IF priority = "HIGH" THEN 2
        ELSE IF priority = "MEDIUM" THEN 1
        ELSE IF priority = "LOW" THEN 0
        ELSE 1

\* priority_order.get(x.get('priority', 'MEDIUM'), 2)
PriorityRank(action) ==
    LET priority == Get(action, "priority", "MEDIUM")
    IN  IF priority = "CRITICAL" THEN 0
        ELSE IF priority = "HIGH" THEN 1
        ELSE IF priority = "MEDIUM" THEN 2
        ELSE IF priority = "LOW" THEN 3
        ELSE 2

RECURSIVE InsertByPriority_Unstable(_, _)
\* InsertByPriority of a sort that is not stable: x goes before the elements of its rank
InsertByPriority_Unstable(sorted, x) ==
    IF Len(sorted) = 0 THEN <<x>>
    ELSE IF PriorityRank(x) <= PriorityRank(Head(sorted))
         THEN <<x>> \o sorted
         ELSE <<Head(sorted)>> \o InsertByPriority_Unstable(Tail(sorted), x)

RECURSIVE InsertByPriority(_, _)
\* x put into a list sorted by rank, behind every element whose rank is not greater:
\* list.sort is stable
InsertByPriority(sorted, x) ==
    IF Len(sorted) = 0 THEN <<x>>
    ELSE IF PriorityRank(x) < PriorityRank(Head(sorted))
         THEN <<x>> \o sorted
         ELSE <<Head(sorted)>> \o InsertByPriority(Tail(sorted), x)

RECURSIVE SortByPriority(_)
\* plan['actions'].sort(key=...)
SortByPriority(actions) ==
    IF Len(actions) = 0 THEN <<>>
    ELSE InsertByPriority(SortByPriority(SubSeq(actions, 1, Len(actions) - 1)),
                          actions[Len(actions)])

\* get_farming_plan on a strategy object whose history is `history`, at clock t:
\* what it raises ("" for a normal return), the plan, and the history it leaves
get_farming_plan(prof, land, crops_response, history, t) ==
    LET analysed == analyze_market(crops_response, history, t)
    IN  IF analysed.raised # ""
        THEN [raised |-> analysed.raised, value |-> EmptyDict,
              market_history |-> analysed.market_history]
        ELSE [raised |-> "",
              value  |-> [timestamp      |-> t,
                          current_water  |-> Get(prof, "score", 0),
                          actions        |-> SortByPriority(
                                                 EmittedActions(prof, land, crops_response,
                                                                analysed.value)),
                          market_summary |-> analysed.value],
              market_history |-> analysed.market_history]

-----------------------------------------------------------------------------
(* The snapshots the strategy is applied to *)

\* bounds of the model
MaxCell == 3            \* cell codes are 0..MaxCell
MaxCrops == 2           \* crop lists hold up to MaxCrops crops
MaxCalls == 2           \* analyses made on one strategy object (Spec)
HistoryOverflow == 3    \* analyses made beyond MAX_HISTORY (SpecHistory)

\* crops of the feed: efficiency and marketPrice in hundredths
Wheat   == [id |-> 2, name |-> "Wheat",   waterCost |-> 8,  efficiency |-> 40, marketPrice |-> 15]
Corn    == [id |-> 3, name |-> "Corn",    waterCost |-> 20, efficiency |-> 60, marketPrice |-> 30]
Melon   == [id |-> 4, name |-> "Melon",   waterCost |-> 21, efficiency |-> 20, marketPrice |-> 10]
Truffle == [id |-> 5, name |-> "Truffle", waterCost |-> 47, efficiency |-> 20, marketPrice |-> 40]
CropPool == {Wheat, Corn, Melon, Truffle}
\* a crop that ties with Wheat on efficiency and marketPrice
Barley  == [id |-> 6, name |-> "Barley",  waterCost |-> 5,  efficiency |-> 40, marketPrice |-> 15]

\* crop lists of up to MaxCrops crops of the pool
CropLists == UNION {[1..n -> CropPool] : n \in 0..MaxCrops}

\* GET /crops: {crops: [...], marketInfo: {averagePrice, bestEfficiency}}
CropsResponse(crops, average_price) ==
    [crops |-> crops,
     marketInfo |-> [averagePrice |-> average_price, bestEfficiency |-> 60]]

\* a /crops response without the 'crops' key (an error-shaped response)
ErrorResponse == [error |-> "unavailable"]

\* GET /profile
Profile(water) == [score |-> water, credits |-> 0]

\* GET /land; cost = INF stands for a response without nextExpansionCost
Land(claimed, tiles, grid, cost) ==
    IF cost = INF
    THEN [landClaimed |-> claimed, landTiles |-> tiles, gridSize |-> Len(grid),
          landData |-> grid]
    ELSE [landClaimed |-> claimed, landTiles |-> tiles, gridSize |-> Len(grid),
          landData |-> grid, nextExpansionCost |-> cost]

\* the n x n grids of cell codes 0..MaxCell
Grids(n) == [1..n -> [1..n -> 0..MaxCell]]

Snapshot(prof, land, crops_response) ==
    [profile |-> prof, land_data |-> land, crops_data |-> crops_response]

\* every 1x1 and 2x2 grid, claimed or not, with a catalogue that knows code 2 only
GridSnapshots ==
    { Snapshot(Profile(w), Land(c, n * n, g, 30), CropsResponse(<<Wheat>>, 20)) :
        <<w, c, n, g>> \in UNION { {<<w, c, n, g>> : w \in {4, 30, 50}, c \in BOOLEAN,
                                                   g \in Grids(n)} : n \in {1, 2} } }

\* grids with and without harvestable cells and empty plots
SomeGrids ==
    { << <<0>> >>, << <<3>> >>,
      << <<0, 0>>, <<0, 0>> >>, << <<3, 0>>, <<0, 0>> >>, << <<1, 1>>, <<1, 1>> >> }

\* water, tile counts and expansion costs around every threshold of should_expand_land
EconomySnapshots ==
    { Snapshot(Profile(w), Land(c, t, g, k), CropsResponse(<<Wheat, Corn>>, 20)) :
        w \in {0, 4, 5, 29, 30, 31, 32, 49, 50, 130, 12100},
        c \in BOOLEAN,
        t \in {0, 1, 4, 9, 16},
        g \in SomeGrids,
        k \in {0, 5, 30, 12001, INF} }

\* every crop list, with water around every reserve of recommend_crop
MarketSnapshots ==
    { Snapshot(Profile(w), Land(TRUE, 4, g, 30), r) :
        w \in {2, 3, 4, 5, 7, 8, 10, 11, 12, 13, 15, 16, 28, 50},
        g \in { << <<0, 1>>, <<1, 1>> >>, << <<0, 0>>, <<1, 1>> >>, << <<0, 0>>, <<0, 1>> >> },
        r \in {CropsResponse(l, p) : l \in CropLists, p \in {0, 20}} \cup {ErrorResponse} }

\* an empty 2x2 farm that cannot afford its expansion, with one crop or two tied crops
ScenarioSnapshots ==
    { Snapshot(Profile(w), Land(TRUE, 4, << <<0, 0>>, <<0, 0>> >>, 30), CropsResponse(l, 20)) :
        w \in {8, 25},
        l \in {<<Wheat>>, <<Wheat, Barley>>, <<Barley, Wheat>>, <<Barley, Corn>>} }

Snapshots == GridSnapshots \cup EconomySnapshots \cup MarketSnapshots \cup ScenarioSnapshots

-----------------------------------------------------------------------------
(* The strategy object under calls *)

\* FarmingStrategy.__init__, and the snapshots fetched for it
Init ==
    /\ \E s \in Snapshots :
          /\ profile = s.profile
          /\ land_data = s.land_data
          /\ crops_data = s.crops_data
    /\ market_history = <<>>
    /\ now = 0
    /\ ret = [op |-> "__init__"]
    /\ BotConstructed
    /\ ApiConstructed("farmer", "secret")

\* strategy.get_farming_plan(current_profile, current_land, current_crops)
GetFarmingPlan(max_calls) ==
    /\ now < max_calls
    /\ LET r == get_farming_plan(profile, land_data, crops_data, market_history, now + 1)
       IN  /\ market_history' = r.market_history
           /\ ret' = [op |-> "get_farming_plan", raised |-> r.raised, value |-> r.value]
    /\ now' = now + 1
    /\ UNCHANGED <<profile, land_data, crops_data>>
    /\ UNCHANGED bot_vars
    /\ UNCHANGED client_vars

\* strategy.analyze_market(current_crops)
AnalyzeMarket(max_calls) ==
    /\ now < max_calls
    /\ LET r == analyze_market(crops_data, market_history, now + 1)
       IN  /\ market_history' = r.market_history
           /\ ret' = [op |-> "analyze_market", raised |-> r.raised, value |-> r.value]
    /\ now' = now + 1
    /\ UNCHANGED <<profile, land_data, crops_data>>
    /\ UNCHANGED bot_vars
    /\ UNCHANGED client_vars

\* the numbers of empty plots recommend_crop is called for
PlotCounts == 0..4

\* strategy.recommend_crop(water, land_size, analysis), on the analysis just returned
RecommendCrop ==
    /\ ret.op = "analyze_market" /\ ret.raised = ""
    /\ \E land_size \in PlotCounts :
          ret' = [op |-> "recommend_crop",
                  available_water |-> Get(profile, "score", 0),
                  land_size |-> land_size,
                  market_analysis |-> ret.value,
                  value |-> recommend_crop(Get(profile, "score", 0), land_size, ret.value)]
    /\ UNCHANGED <<profile, land_data, crops_data, market_history, now>>
    /\ UNCHANGED bot_vars
    /\ UNCHANGED client_vars

\* strategy.should_expand_land(current_profile, current_land)
ShouldExpandLand ==
    /\ ret' = [op |-> "should_expand_land",
               value |-> should_expand_land(profile, land_data)]
    /\ UNCHANGED <<profile, land_data, crops_data, market_history, now>>
    /\ UNCHANGED bot_vars
    /\ UNCHANGED client_vars

Next ==
    \/ GetFarmingPlan(MaxCalls)
    \/ AnalyzeMarket(MaxCalls)
    \/ RecommendCrop
    \/ ShouldExpandLand

Spec == Init /\ [][Next]_vars

\* strategy.calculate_expansion_roi(current_land, water)
CalculateExpansionRoi ==
    /\ ret' = [op |-> "calculate_expansion_roi",
               value |-> calculate_expansion_roi(land_data, Get(profile, "score", 0))]
    /\ UNCHANGED <<profile, land_data, crops_data, market_history, now>>
    /\ UNCHANGED bot_vars
    /\ UNCHANGED client_vars

\* strategy.get_expansion_recommendation(current_profile, current_land), as the status
\* display calls it
GetExpansionRecommendation ==
    /\ ret' = [op |-> "get_expansion_recommendation",
               value |-> get_expansion_recommendation(profile, land_data)]
    /\ UNCHANGED <<profile, land_data, crops_data, market_history, now>>
    /\ UNCHANGED bot_vars
    /\ UNCHANGED client_vars

\* farms of other sizes than 1, 4, 9 tiles, with costs that do not divide the return
OddSnapshots ==
    { Snapshot(Profile(w), Land(TRUE, t, << <<1>> >>, k), CropsResponse(<<Wheat, Corn>>, 20)) :
        w \in {6, 30, 130}, t \in {2, 3, 5, 25}, k \in {0, 7, 30} }

AdvisorSnapshots == EconomySnapshots \cup OddSnapshots

\* The expansion advisor: the calls that read the profile and the land snapshot only
InitAdvisor ==
    /\ \E s \in AdvisorSnapshots :
          /\ profile = s.profile
          /\ land_data = s.land_data
          /\ crops_data = s.crops_data
    /\ market_history = <<>>
    /\ now = 0
    /\ ret = [op |-> "__init__"]
    /\ BotConstructed
    /\ ApiConstructed("farmer", "secret")

NextAdvisor ==
    \/ ShouldExpandLand
    \/ CalculateExpansionRoi
    \/ GetExpansionRecommendation

SpecAdvisor == InitAdvisor /\ [][NextAdvisor]_vars

\* Partial responses: a full snapshot with any set of its fields missing
Without(d, keys) == [k \in (DOMAIN d) \ keys |-> d[k]]

PartialSnapshots ==
    { Snapshot(Without(Profile(b[1]), mp),
               Without(Land(TRUE, b[2], b[3], 30), ml),
               Without(CropsResponse(<<Without(Wheat, mf), Without(Corn, mf)>>, 20), mc)) :
        b  \in { <<50, 1, << <<2, 0>>, <<0, 1>> >> >>, <<100, 4, << <<3, 0>>, <<0, 0>> >> >> },
        mp \in SUBSET {"score"},
        ml \in SUBSET {"landClaimed", "landTiles", "nextExpansionCost", "landData"},
        mc \in SUBSET {"crops", "marketInfo"},
        mf \in SUBSET {"efficiency", "marketPrice", "waterCost", "id"} }

InitPartial ==
    /\ \E s \in PartialSnapshots :
          /\ profile = s.profile
          /\ land_data = s.land_data
          /\ crops_data = s.crops_data
    /\ market_history = <<>>
    /\ now = 0
    /\ ret = [op |-> "__init__"]
    /\ BotConstructed
    /\ ApiConstructed("farmer", "secret")

NextPartial == GetFarmingPlan(MaxCalls)

SpecPartial == InitPartial /\ [][NextPartial]_vars

\* The rolling history: one strategy object analysing the same feed again and again,
\* past the capacity of the history
HistorySnapshots ==
    { Snapshot(Profile(50), Land(TRUE, 4, << <<3, 0>>, <<0, 0>> >>, 30), r) :
        r \in {CropsResponse(l, 20) : l \in {<<>>, <<Wheat>>, <<Wheat, Corn>>, <<Melon, Corn>>}}
              \cup {ErrorResponse} }

InitHistory ==
    /\ \E s \in HistorySnapshots :
          /\ profile = s.profile
          /\ land_data = s.land_data
          /\ crops_data = s.crops_data
    /\ market_history = <<>>
    /\ now = 0
    /\ ret = [op |-> "__init__"]
    /\ BotConstructed
    /\ ApiConstructed("farmer", "secret")

NextHistory ==
    \/ GetFarmingPlan(MAX_HISTORY + HistoryOverflow)
    \/ AnalyzeMarket(MAX_HISTORY + HistoryOverflow)

SpecHistory == InitHistory /\ [][NextHistory]_vars

-----------------------------------------------------------------------------
(* The bot (farm_bot.py): start() and stop(), the three background loops, the   *)
(* executor of the plan, and the status display.  Each thread is at a position  *)
(* pc[t] of its loop; a step of a thread is one access to the shared state or   *)
(* one API call.  Every counter of stats is written by one thread only.         *)

\* bounds of the bot
MaxCycles == 1          \* farming cycles that fetch their snapshots (the API fails after)
MaxCollected == 1       \* water collections that succeed (the API refuses after)

strategy_vars == <<profile, land_data, crops_data, market_history, now, ret>>
executor_vars == <<executing, action_index, result, attempted>>

\* a crop as GET /crops lists it, with the type POST /plant takes
Rice == [id |-> 2, type |-> "rice", name |-> "Rice", waterCost |-> 8,
         efficiency |-> 40, marketPrice |-> 15]

\* what the API answers to the bot: a farm with a mature crop, a growing one and an
\* empty plot, or no land yet; a feed of one crop, or an empty feed
BotProfiles == {Profile(50)}
BotLands == {Land(TRUE, 4, << <<2, 0>>, <<1, 1>> >>, 30), Land(FALSE, 0, <<>>, INF)}
BotCrops == {CropsResponse(<<Rice>>, 20), CropsResponse(<<>>, 20)}

\* _make_request: the JSON payload of the response, or an exception
ErrorPayload == [error |-> "invalid_request", error_description |-> "rejected"]
RequestException == [raised |-> "RequestException"]
ApiResponses(action_type) ==
    IF action_type = "harvest"
    THEN {[message |-> "harvested", creditsEarned |-> 15], ErrorPayload, RequestException}
    ELSE {[message |-> "done"], ErrorPayload, RequestException}

\* the counter an action of this type adds to
CounterOf(action_type) ==
    IF action_type \in {"claim_land", "expand_land"} THEN "land_expansions"
    ELSE IF action_type = "plant" THEN "crops_planted"
    ELSE "crops_harvested"

\* one pass of the try block of _execute_farming_plan, up to the update of the
\* statistics, for the response the API call gives: whether the call was made, and
\* how the pass ends: "ok" (the counter is to be updated), "error" (error payload, or
\* no branch for the type), "raised" (an exception reached the except clause)
try_action(action, response) ==
    LET action_type == action.type
        Pass(called, ended) == [called |-> called, ended |-> ended]
        Answer == IF "raised" \in DOMAIN response THEN Pass(TRUE, "raised")
                  ELSE IF "error" \notin DOMAIN response THEN Pass(TRUE, "ok")
                  ELSE Pass(TRUE, "error")
    IN  IF action_type \in {"claim_land", "expand_land"} THEN Answer
        ELSE IF action_type = "plant"
        THEN IF "type" \notin DOMAIN action.crop THEN Pass(FALSE, "raised")
             ELSE IF Answer.ended = "ok" /\ "name" \notin DOMAIN action.crop
                  THEN Pass(TRUE, "raised")
                  ELSE Answer
        ELSE IF action_type = "harvest"
        THEN IF Answer.ended = "ok" /\ "name" \notin DOMAIN action.crop
             THEN Pass(TRUE, "raised")
             ELSE Answer
        ELSE Pass(FALSE, "error")

\* the first position of a loop's body
Body(t) ==
    IF t = "water" THEN "collect" ELSE IF t = "token" THEN "refresh" ELSE "get_profile"

\* a body entered: it is late when the event was set before it began
Enter(t) == late' = [late EXCEPT ![t] = @ + (IF stop_event THEN 1 ELSE 0)]

\* bot.start(): running = True, the three threads started
Start ==
    /\ ~running /\ ~stop_event
    /\ \A t \in Threads : pc[t] = "unstarted"
    /\ running' = TRUE
    /\ pc' = [t \in Threads |-> "check"]
    /\ UNCHANGED <<stop_event, stats, display, succeeded, late>>
    /\ UNCHANGED <<strategy_vars, executor_vars>>
    /\ UNCHANGED client_vars

\* the main loop of start(): live.update(self.create_status_display())
RefreshDisplay ==
    /\ running
    /\ display' = stats
    /\ UNCHANGED <<running, stop_event, pc, stats, succeeded, late>>
    /\ UNCHANGED <<strategy_vars, executor_vars>>
    /\ UNCHANGED client_vars

\* KeyboardInterrupt: bot.stop() clears running and sets the event (the statistics it
\* prints go to the console, not to the status display)
Stop ==
    /\ running
    /\ running' = FALSE
    /\ stop_event' = TRUE
    /\ UNCHANGED <<pc, stats, display, succeeded, late>>
    /\ UNCHANGED <<strategy_vars, executor_vars>>
    /\ UNCHANGED client_vars

\* while not self.stop_event.is_set():
Check(t) ==
    /\ pc[t] = "check"
    /\ pc' = [pc EXCEPT ![t] = IF stop_event THEN "exited" ELSE Body(t)]
    /\ UNCHANGED <<running, stop_event, stats, display, succeeded, late>>
    /\ UNCHANGED <<strategy_vars, executor_vars>>
    /\ UNCHANGED client_vars

\* Wait whose return runs the body again: the condition is tested on entry only
Wait_Rerun(t) ==
    /\ pc[t] = "wait"
    /\ pc' = [pc EXCEPT ![t] = Body(t)]
    /\ UNCHANGED <<running, stop_event, stats, display, succeeded, late>>
    /\ UNCHANGED <<strategy_vars, executor_vars>>
    /\ UNCHANGED client_vars

\* self.stop_event.wait(INTERVAL) returns, at the timeout or because the event is set
Wait(t) ==
    /\ pc[t] = "wait"
    /\ pc' = [pc EXCEPT ![t] = "check"]
    /\ UNCHANGED <<running, stop_event, stats, display, succeeded, late>>
    /\ UNCHANGED <<strategy_vars, executor_vars>>
    /\ UNCHANGED client_vars

\* collect_water_cycle: result = self.api.collect_water(), and the branch taken
CollectWater ==
    /\ pc["water"] = "collect"
    /\ Enter("water")
    /\ \/ /\ succeeded.water_collected < MaxCollected      \* 'score' in result
          /\ succeeded' = [succeeded EXCEPT !.water_collected = @ + 1]
          /\ pc' = [pc EXCEPT !["water"] = "count"]
       \/ /\ pc' = [pc EXCEPT !["water"] = "wait"]          \* error, message, exception
          /\ UNCHANGED succeeded
    /\ UNCHANGED <<running, stop_event, stats, display>>
    /\ UNCHANGED <<strategy_vars, executor_vars>>
    /\ UNCHANGED client_vars

\* self.stats['water_collected'] += 1
CountWater ==
    /\ pc["water"] = "count"
    /\ stats' = [stats EXCEPT !.water_collected = @ + 1]
    /\ pc' = [pc EXCEPT !["water"] = "wait"]
    /\ UNCHANGED <<running, stop_event, display, succeeded, late>>
    /\ UNCHANGED <<strategy_vars, executor_vars>>
    /\ UNCHANGED client_vars

\* token_refresh_cycle: self.api.refresh_token() returns True or False, or raises
RefreshToken ==
    /\ pc["token"] = "refresh"
    /\ Enter("token")
    /\ pc' = [pc EXCEPT !["token"] = "wait"]
    /\ UNCHANGED <<running, stop_event, stats, display, succeeded>>
    /\ UNCHANGED <<strategy_vars, executor_vars>>
    /\ UNCHANGED client_vars

\* farming_cycle: self.current_profile = self.api.get_profile(), or it raises
FetchProfile ==
    /\ pc["farming"] = "get_profile"
    /\ Enter("farming")
    /\ \/ /\ now < MaxCycles
          /\ profile' \in BotProfiles
          /\ pc' = [pc EXCEPT !["farming"] = "get_land"]
       \/ /\ pc' = [pc EXCEPT !["farming"] = "wait"]
          /\ UNCHANGED profile
    /\ UNCHANGED <<land_data, crops_data, market_history, now, ret>>
    /\ UNCHANGED <<running, stop_event, stats, display, succeeded, executor_vars>>
    /\ UNCHANGED client_vars

\* self.current_land = self.api.get_land(), one of `lands`, or it raises
FetchLand(lands) ==
    /\ pc["farming"] = "get_land"
    /\ \/ /\ land_data' \in lands
          /\ pc' = [pc EXCEPT !["farming"] = "get_crops"]
       \/ /\ pc' = [pc EXCEPT !["farming"] = "wait"]
          /\ UNCHANGED land_data
    /\ UNCHANGED <<profile, crops_data, market_history, now, ret>>
    /\ UNCHANGED <<running, stop_event, stats, display, succeeded, late, executor_vars>>
    /\ UNCHANGED client_vars

\* self.current_crops = self.api.get_crops(), or it raises
FetchCrops ==
    /\ pc["farming"] = "get_crops"
    /\ \/ /\ crops_data' \in BotCrops
          /\ pc' = [pc EXCEPT !["farming"] = "plan"]
       \/ /\ pc' = [pc EXCEPT !["farming"] = "wait"]
          /\ UNCHANGED crops_data
    /\ UNCHANGED <<profile, land_data, market_history, now, ret>>
    /\ UNCHANGED <<running, stop_event, stats, display, succeeded, late, executor_vars>>
    /\ UNCHANGED client_vars

\* plan = self.strategy.get_farming_plan(...); actions = plan.get('actions', []).
\* An exception of the strategy is caught by the except clause of farming_cycle.
PlanCycle ==
    /\ pc["farming"] = "plan"
    /\ LET r == get_farming_plan(profile, land_data, crops_data, market_history, now + 1)
       IN  /\ market_history' = r.market_history
           /\ ret' = [op |-> "get_farming_plan", raised |-> r.raised, value |-> r.value]
           /\ IF r.raised # ""
              THEN /\ pc' = [pc EXCEPT !["farming"] = "wait"]
                   /\ UNCHANGED <<executing, action_index, attempted>>
              ELSE /\ pc' = [pc EXCEPT !["farming"] = "execute"]
                   /\ executing' = Get(r.value, "actions", <<>>)
                   /\ action_index' = 1
                   /\ attempted' = <<>>
    /\ now' = now + 1
    /\ UNCHANGED <<profile, land_data, crops_data, result>>
    /\ UNCHANGED <<running, stop_event, stats, display, succeeded, late>>
    /\ UNCHANGED client_vars

\* ExecuteAction that leaves the for loop at the first exception
ExecuteAction_AbortOnRaise ==
    /\ pc["farming"] = "execute"
    /\ action_index <= Len(executing)
    /\ LET action == executing[action_index]
       IN  \E response \in ApiResponses(action.type) :
              LET pass == try_action(action, response)
              IN  /\ result' = response
                  /\ attempted' = Append(attempted, [index |-> action_index,
                                                     called |-> pass.called,
                                                     ended |-> pass.ended])
                  /\ succeeded' =
                        IF pass.called /\ DOMAIN response \cap {"raised", "error"} = {}
                        THEN [succeeded EXCEPT
                                 ![CounterOf(action.type)] = @ + 1,
                                 !.total_credits_earned =
                                     @ + (IF action.type = "harvest"
                                          THEN Get(response, "creditsEarned", 0) ELSE 0)]
                        ELSE succeeded
                  /\ IF pass.ended = "raised"
                     THEN /\ pc' = [pc EXCEPT !["farming"] = "wait"]
                          /\ UNCHANGED action_index
                     ELSE /\ pc' = [pc EXCEPT !["farming"] =
                                       IF pass.ended = "ok" THEN "count" ELSE "sleep"]
                          /\ UNCHANGED action_index
    /\ UNCHANGED <<running, stop_event, stats, display, late, executing>>
    /\ UNCHANGED strategy_vars
    /\ UNCHANGED client_vars

\* for action in actions: the try block up to the update of the statistics.  An
\* exception goes to the except clause and the loop takes the next action.
ExecuteAction ==
    /\ pc["farming"] = "execute"
    /\ action_index <= Len(executing)
    /\ LET action == executing[action_index]
       IN  \E response \in ApiResponses(action.type) :
              LET pass == try_action(action, response)
              IN  /\ result' = response
                  /\ attempted' = Append(attempted, [index |-> action_index,
                                                     called |-> pass.called,
                                                     ended |-> pass.ended])
                  /\ succeeded' =
                        IF pass.called /\ DOMAIN response \cap {"raised", "error"} = {}
                        THEN [succeeded EXCEPT
                                 ![CounterOf(action.type)] = @ + 1,
                                 !.total_credits_earned =
                                     @ + (IF action.type = "harvest"
                                          THEN Get(response, "creditsEarned", 0) ELSE 0)]
                        ELSE succeeded
                  /\ IF pass.ended = "raised"
                     THEN /\ action_index' = action_index + 1
                          /\ UNCHANGED pc
                     ELSE /\ pc' = [pc EXCEPT !["farming"] =
                                       IF pass.ended = "ok" THEN "count" ELSE "sleep"]
                          /\ UNCHANGED action_index
    /\ UNCHANGED <<running, stop_event, stats, display, late, executing>>
    /\ UNCHANGED strategy_vars
    /\ UNCHANGED client_vars

\* self.stats[counter] += 1, the first update of a successful action
CountAction ==
    /\ pc["farming"] = "count"
    /\ LET action_type == executing[action_index].type
       IN  /\ stats' = [stats EXCEPT ![CounterOf(action_type)] = @ + 1]
           /\ pc' = [pc EXCEPT !["farming"] =
                        IF action_type = "harvest" THEN "credit" ELSE "sleep"]
    /\ UNCHANGED <<running, stop_event, display, succeeded, late>>
    /\ UNCHANGED <<strategy_vars, executor_vars>>
    /\ UNCHANGED client_vars

\* self.stats['total_credits_earned'] += credits, the second update of a harvest
CreditHarvest ==
    /\ pc["farming"] = "credit"
    /\ stats' = [stats EXCEPT !.total_credits_earned = @ + Get(result, "creditsEarned", 0)]
    /\ pc' = [pc EXCEPT !["farming"] = "sleep"]
    /\ UNCHANGED <<running, stop_event, display, succeeded, late>>
    /\ UNCHANGED <<strategy_vars, executor_vars>>
    /\ UNCHANGED client_vars

\* PaceAction of a loop that skips the action after a paced one
PaceAction_SkipNext ==
    /\ pc["farming"] = "sleep"
    /\ action_index' = action_index + 2
    /\ pc' = [pc EXCEPT !["farming"] = "execute"]
    /\ UNCHANGED <<executing, result, attempted>>
    /\ UNCHANGED <<running, stop_event, stats, display, succeeded, late>>
    /\ UNCHANGED strategy_vars
    /\ UNCHANGED client_vars

\* time.sleep(1), and the for loop takes the next action
PaceAction ==
    /\ pc["farming"] = "sleep"
    /\ action_index' = action_index + 1
    /\ pc' = [pc EXCEPT !["farming"] = "execute"]
    /\ UNCHANGED <<executing, result, attempted>>
    /\ UNCHANGED <<running, stop_event, stats, display, succeeded, late>>
    /\ UNCHANGED strategy_vars
    /\ UNCHANGED client_vars

\* the for loop is over: _execute_farming_plan returns, last_crop_check is set
FinishPlan ==
    /\ pc["farming"] = "execute"
    /\ action_index > Len(executing)
    /\ pc' = [pc EXCEPT !["farming"] = "wait"]
    /\ UNCHANGED <<running, stop_event, stats, display, succeeded, late>>
    /\ UNCHANGED <<strategy_vars, executor_vars>>
    /\ UNCHANGED client_vars

\* the steps of each background thread
WaterLoop == Check("water") \/ CollectWater \/ CountWater \/ Wait("water")
TokenLoop == Check("token") \/ RefreshToken \/ Wait("token")
FarmingLoop(lands) ==
    \/ Check("farming") \/ FetchProfile \/ FetchLand(lands) \/ FetchCrops \/ PlanCycle
    \/ ExecuteAction \/ CountAction \/ CreditHarvest \/ PaceAction \/ FinishPlan
    \/ Wait("farming")

\* HappyHarvestBot.__init__: no snapshot yet
InitBot ==
    /\ profile = EmptyDict
    /\ land_data = EmptyDict
    /\ crops_data = EmptyDict
    /\ market_history = <<>>
    /\ now = 0
    /\ ret = [op |-> "__init__"]
    /\ BotConstructed
    /\ ApiConstructed("farmer", "secret")

\* The statistics: the loops that write them and the display that reads them
NextBot ==
    \/ Start
    \/ RefreshDisplay
    \/ WaterLoop
    \/ FarmingLoop(BotLands)

SpecBot == InitBot /\ [][NextBot]_vars

\* The shutdown: the three loops and stop(), on a farm of one tile with a mature crop
SmallLands == {Land(TRUE, 1, << <<2>> >>, INF)}

NextLoops ==
    \/ Start
    \/ Stop
    \/ WaterLoop
    \/ TokenLoop
    \/ FarmingLoop(SmallLands)

SpecLoops == InitBot /\ [][NextLoops]_vars

\* the steps of thread t in the shutdown
LoopStep(t) ==
    IF t = "water" THEN WaterLoop
    ELSE IF t = "token" THEN TokenLoop
    ELSE FarmingLoop(SmallLands)

\* the threads are scheduled fairly, and their API calls return
SpecLoopsFair ==
    /\ SpecLoops
    /\ WF_vars(WaterLoop) /\ WF_vars(TokenLoop) /\ WF_vars(FarmingLoop(SmallLands))

-----------------------------------------------------------------------------
(* The API client (api_client.py): _make_request, its retries, and the token
   refresh it starts.  The clock `now` counts seconds here. *)

MaxRetries == 4         \* retry_count of a request is 0..MaxRetries
MaxRequests == 2        \* requests made on one client

DefaultRetryCount == 3  \* retry_count: int = 3
TokenLifetime == 300    \* result.get('expires_in', 300)
TokenMargin == 60       \* timedelta(minutes=1)

Methods == {"GET", "POST", "DELETE"}
RetryCounts == 0..MaxRetries
ClientIds == {"", "farmer"}

\* the token endpoint's answers: a token that stays valid for 5 seconds, a token
\* with the default lifetime, an error payload
TokenResponses ==
    {[access_token |-> "jwt", expires_in |-> 65], [access_token |-> "jwt"], ErrorPayload}

\* what one HTTP attempt gives: the JSON of a 2xx response, or a RequestException
\* (connection error, timeout, raise_for_status on a 4xx / 5xx status)
HttpOutcomes(url) ==
    (IF url = "token" THEN TokenResponses ELSE {[message |-> "ok"], ErrorPayload})
    \cup {RequestException}

\* an activation of _make_request: its arguments, where it stands, the loop
\* variable attempt, and its history: calls (HTTP attempts made), failed (attempts
\* that raised RequestException), slept (the sleeps made), refreshed (how the
\* token refresh it started ended: "no" when none was started)
Frame(serial, method, url, auth_required, retry_count) ==
    [serial |-> serial, method |-> method, url |-> url,
     auth_required |-> auth_required, retry_count |-> retry_count,
     pc |-> "enter", attempt |-> 0, calls |-> 0, failed |-> 0, slept |-> <<>>,
     refreshed |-> "no", raised |-> "", response |-> EmptyDict]

\* _is_token_valid
_is_token_valid(client, t) ==
    client.access_token # "" /\ t < client.token_expires_at - TokenMargin

RECURSIVE Pow2(_)
\* 2 ** attempt
Pow2(attempt) == IF attempt = 0 THEN 1 ELSE 2 * Pow2(attempt - 1)

\* the innermost activation
Top == requests[Len(requests)]

Finished(frame) == frame.pc \in {"returned", "raised"}

\* the innermost activation replaced
WithTop(frame) == [requests EXCEPT ![Len(requests)] = frame]

\* an endpoint method calls self._make_request(method, url, data, auth_required,
\* retry_count) when no request is under way
MakeRequest ==
    /\ Len(requests) = 0 \/ (Len(requests) = 1 /\ Finished(Top))
    /\ LET serial == IF Len(requests) = 0 THEN 1 ELSE Top.serial + 1
       IN  /\ serial <= MaxRequests
           /\ \E method \in Methods, auth_required \in BOOLEAN, retry_count \in RetryCounts :
                 requests' = <<Frame(serial, method, "api", auth_required, retry_count)>>
    /\ UNCHANGED <<api, now>>
    /\ UNCHANGED <<profile, land_data, crops_data, market_history, ret>>
    /\ UNCHANGED bot_vars

\* if auth_required and not self._is_token_valid(): self.refresh_token(), which
\* calls get_token: it raises without credentials, else posts to the token endpoint
CheckToken ==
    /\ Len(requests) > 0 /\ Top.pc = "enter"
    /\ IF Top.auth_required /\ ~_is_token_valid(api, now)
       THEN IF api.client_id = "" \/ api.client_secret = ""
            THEN requests' = WithTop([Top EXCEPT !.pc = "raised",
                                                 !.raised = "Failed to refresh token",
                                                 !.refreshed = "failed"])
            ELSE requests' = Append(WithTop([Top EXCEPT !.pc = "refresh"]),
                                    Frame(Top.serial, "POST", "token", FALSE,
                                          DefaultRetryCount))
       ELSE requests' = WithTop([Top EXCEPT !.pc = "attempt"])
    /\ UNCHANGED <<api, now>>
    /\ UNCHANGED <<profile, land_data, crops_data, market_history, ret>>
    /\ UNCHANGED bot_vars

\* one pass of for attempt in range(retry_count), up to the return, the raise or
\* the sleep; past the loop, raise Exception("Max retries exceeded")
Attempt ==
    /\ Len(requests) > 0 /\ Top.pc = "attempt"
    /\ IF Top.attempt >= Top.retry_count
       THEN requests' = WithTop([Top EXCEPT !.pc = "raised",
                                            !.raised = "Max retries exceeded"])
       ELSE IF Top.method \notin {"GET", "POST"}
       THEN requests' = WithTop([Top EXCEPT !.pc = "raised", !.raised = "ValueError"])
       ELSE \E outcome \in HttpOutcomes(Top.url) :
               IF "raised" \notin DOMAIN outcome
               THEN requests' = WithTop([Top EXCEPT !.calls = @ + 1,
                                                    !.pc = "returned",
                                                    !.response = outcome])
               ELSE IF Top.attempt = Top.retry_count - 1
               THEN requests' = WithTop([Top EXCEPT !.calls = @ + 1,
                                                    !.failed = @ + 1,
                                                    !.pc = "raised",
                                                    !.raised = outcome.raised])
               ELSE requests' = WithTop([Top EXCEPT !.calls = @ + 1,
                                                    !.failed = @ + 1,
                                                    !.pc = "backoff"])
    /\ UNCHANGED <<api, now>>
    /\ UNCHANGED <<profile, land_data, crops_data, market_history, ret>>
    /\ UNCHANGED bot_vars

\* Backoff that sleeps one second whatever the attempt
Backoff_Constant ==
    /\ Len(requests) > 0 /\ Top.pc = "backoff"
    /\ requests' = WithTop([Top EXCEPT !.slept = Append(@, 1),
                                       !.attempt = @ + 1,
                                       !.pc = "attempt"])
    /\ now' = now + 1
    /\ UNCHANGED api
    /\ UNCHANGED <<profile, land_data, crops_data, market_history, ret>>
    /\ UNCHANGED bot_vars

\* time.sleep(2 ** attempt), and the loop takes the next attempt
Backoff ==
    /\ Len(requests) > 0 /\ Top.pc = "backoff"
    /\ requests' = WithTop([Top EXCEPT !.slept = Append(@, Pow2(Top.attempt)),
                                       !.attempt = @ + 1,
                                       !.pc = "attempt"])
    /\ now' = now + Pow2(Top.attempt)
    /\ UNCHANGED api
    /\ UNCHANGED <<profile, land_data, crops_data, market_history, ret>>
    /\ UNCHANGED bot_vars

\* the token request is over: get_token stores the token it was given,
\* refresh_token returns True, or False when get_token raised, and the request that
\* asked for the refresh goes on or raises Exception("Failed to refresh token")
TokenReturn ==
    /\ Len(requests) = 2 /\ Finished(Top)
    /\ LET outer == requests[1]
       IN  IF Top.pc = "returned"
           THEN /\ api' = IF "access_token" \in DOMAIN Top.response
                          THEN [api EXCEPT
                                   !.access_token = Top.response.access_token,
                                   !.token_expires_at =
                                       now + Get(Top.response, "expires_in", TokenLifetime)]
                          ELSE api
                /\ requests' = <<[outer EXCEPT !.pc = "attempt", !.refreshed = "ok"]>>
           ELSE /\ api' = api
                /\ requests' = <<[outer EXCEPT !.pc = "raised",
                                               !.raised = "Failed to refresh token",
                                               !.refreshed = "failed"]>>
    /\ UNCHANGED now
    /\ UNCHANGED <<profile, land_data, crops_data, market_history, ret>>
    /\ UNCHANGED bot_vars

\* a client constructed with or without credentials, and the requests made on it
InitRequest ==
    /\ profile = EmptyDict
    /\ land_data = EmptyDict
    /\ crops_data = EmptyDict
    /\ market_history = <<>>
    /\ now = 0
    /\ ret = [op |-> "__init__"]
    /\ BotConstructed
    /\ \E client_id \in ClientIds : api = HappyHarvestAPI(client_id, client_id, 0)
    /\ requests = <<>>

NextRequest ==
    \/ MakeRequest
    \/ CheckToken
    \/ Attempt
    \/ Backoff
    \/ TokenReturn

SpecRequest == InitRequest /\ [][NextRequest]_vars

-----------------------------------------------------------------------------
(* What the claims speak of *)

\* the crops snapshot holds a crop list, and it is not empty
HasCrops == "crops" \in DOMAIN crops_data /\ Len(crops_data["crops"]) > 0

\* a call of analyze_market has returned an analysis of a crop list
Analysed == ret.op = "analyze_market" /\ ret.raised = "" /\ "crops" \in DOMAIN crops_data

\* a call of get_farming_plan has returned a plan
Planned == ret.op = "get_farming_plan" /\ ret.raised = ""

\* the actions of the plan returned
PlanActions == ret.value.actions

\* the positions of the plan's actions of the given types
ActionsOfType(types) == {i \in 1..Len(PlanActions) : PlanActions[i].type \in types}

\* the cells of the land snapshot's grid, as <<row, col>> (0-based)
AllCells ==
    UNION {{<<r - 1, c - 1>> : c \in 1..Len(land_data.landData[r])} :
              r \in 1..Len(land_data.landData)}

CellCode(rc) == land_data.landData[rc[1] + 1][rc[2] + 1]

\* the cells with code >= 2, and the cells with code 0
MatureCells == {rc \in AllCells : CellCode(rc) >= 2}
EmptyCells == {rc \in AllCells : CellCode(rc) = 0}

-----------------------------------------------------------------------------
(* C1 *)

\* the sum of the efficiencies of the crop list
C1_Sum(crops) ==
    LET F[i \in 0..Len(crops)] == IF i = 0 THEN 0 ELSE F[i - 1] + crops[i].efficiency
    IN  F[Len(crops)]

\* the priority of the first rule that matches the crop:
\* efficiency > avgEfficiency * 1.2, marketPrice > averagePrice * 1.10, waterCost <= 20
C1_Priority(crop, crops, average_price) ==
    CASE 10 * crop.efficiency * Len(crops) > 12 * C1_Sum(crops) -> "HIGH"
      [] 10 * crop.efficiency * Len(crops) <= 12 * C1_Sum(crops)
         /\ 100 * crop.marketPrice > 110 * average_price -> "MEDIUM"
      [] 10 * crop.efficiency * Len(crops) <= 12 * C1_Sum(crops)
         /\ 100 * crop.marketPrice <= 110 * average_price
         /\ crop.waterCost <= 20 -> "MEDIUM"
      [] OTHER -> "LOW"

\* C1: analyze_market on a non-empty crop list returns one opportunity per crop, in
\* input order, each with the priority of the first matching rule (HIGH for
\* efficiency > 1.2 * average efficiency, else MEDIUM for price > 1.10 * average price,
\* else MEDIUM for waterCost <= 20, else LOW).
C1_OneOpportunityPerCrop ==
    (Analysed /\ HasCrops) =>
        LET crops == crops_data.crops
            opps  == ret.value.opportunities
        IN  /\ Len(opps) = Len(crops)
            /\ \A i \in 1..Len(crops) :
                  /\ opps[i].crop = crops[i]
                  /\ opps[i].priority =
                        C1_Priority(crops[i], crops, crops_data.marketInfo.averagePrice)

\* an analysis of two crops that puts one in HIGH and the other in LOW
C1_Witness ==
    /\ Analysed /\ HasCrops
    /\ Len(ret.value.opportunities) = 2
    /\ \E i, j \in 1..2 :
          /\ ret.value.opportunities[i].priority = "HIGH"
          /\ ret.value.opportunities[j].priority = "LOW"

-----------------------------------------------------------------------------
(* C2 *)

\* the rank table of the claim
C2_Rank(priority) ==
    CASE priority = "CRITICAL" -> 0
      [] priority = "HIGH" -> 1
      [] priority = "MEDIUM" -> 2
      [] priority = "LOW" -> 3

\* the step of get_farming_plan that emits an action of this type
C2_Step(action) ==
    CASE action.type = "harvest" -> 1
      [] action.type \in {"claim_land", "expand_land"} -> 2
      [] action.type = "plant" -> 3

\* a is emitted before b: an earlier step, or two harvests in scan order
C2_EmittedBefore(a, b) ==
    \/ C2_Step(a) < C2_Step(b)
    \/ /\ a.type = "harvest" /\ b.type = "harvest"
       /\ (a.row < b.row \/ (a.row = b.row /\ a.col < b.col))

\* C2: the action list of every plan returned is sorted non-decreasing by priority
\* rank (CRITICAL 0, HIGH 1, MEDIUM 2, LOW 3), and actions of equal priority stand in
\* their emission order (harvests in scan order, then the land action, then plant).
C2_SortedStable ==
    Planned =>
        \A i, j \in 1..Len(PlanActions) :
            i < j =>
                /\ C2_Rank(PlanActions[i].priority) <= C2_Rank(PlanActions[j].priority)
                /\ (PlanActions[i].priority = PlanActions[j].priority
                        => C2_EmittedBefore(PlanActions[i], PlanActions[j]))

\* a plan whose expand_land and plant actions are both MEDIUM, and one with two harvests
C2_Witness ==
    /\ Planned
    /\ \E i, j \in 1..Len(PlanActions) :
          /\ i < j
          /\ PlanActions[i].type = "expand_land" /\ PlanActions[i].priority = "MEDIUM"
          /\ PlanActions[j].type = "plant" /\ PlanActions[j].priority = "MEDIUM"

-----------------------------------------------------------------------------
(* C3 *)

\* the harvest action of the plan for cell rc is unique, CRITICAL, and carries the crop
\* of the catalogue with the cell's code as id, or the placeholder when there is none
C3_HarvestOf(rc) ==
    LET at    == {i \in ActionsOfType({"harvest"}) :
                     PlanActions[i].row = rc[1] /\ PlanActions[i].col = rc[2]}
        known == {k \in 1..Len(crops_data.crops) : crops_data.crops[k].id = CellCode(rc)}
    IN  /\ Cardinality(at) = 1
        /\ \A i \in at :
              /\ PlanActions[i].priority = "CRITICAL"
              /\ IF known = {}
                 THEN PlanActions[i].crop = [name |-> "Unknown Crop", id |-> CellCode(rc)]
                 ELSE \E k \in known : PlanActions[i].crop = crops_data.crops[k]

\* C3 as claimed: for any land grid, claimed or not, the plan's harvest actions are as
\* many as the cells with code >= 2.
C3_Original ==
    Planned =>
        Cardinality(ActionsOfType({"harvest"})) = Cardinality(MatureCells)

\* C3, amended: for claimed land, the plan holds exactly one harvest action per cell
\* with code >= 2, of priority CRITICAL, with that cell's row and column, and with the
\* 'Unknown Crop' placeholder as crop when the code matches no crop id; for unclaimed
\* land the plan holds no harvest action.
C3_HarvestPerMatureCell ==
    Planned =>
        IF land_data.landClaimed
        THEN /\ Cardinality(ActionsOfType({"harvest"}))
                    = Cardinality(MatureCells)
             /\ \A rc \in MatureCells : C3_HarvestOf(rc)
        ELSE ActionsOfType({"harvest"}) = {}

\* a plan for claimed land with a mature cell of a known crop and one of an unknown crop
C3_Witness ==
    /\ Planned /\ land_data.landClaimed
    /\ \E i, j \in ActionsOfType({"harvest"}) :
          /\ PlanActions[i].crop = [name |-> "Unknown Crop", id |-> 3]
          /\ PlanActions[j].crop = Wheat

-----------------------------------------------------------------------------
(* C4 *)

\* a call of should_expand_land has returned
ExpandAsked == ret.op = "should_expand_land"

\* the land snapshot's nextExpansionCost; INF when the snapshot has none
C4_Cost == IF "nextExpansionCost" \in DOMAIN land_data THEN land_data.nextExpansionCost ELSE INF

-----------------------------------------------------------------------------
(* C5 *)

\* the reserve of the claim: 3 for >= 3 empty plots, 5 for 2, 8 for <= 1
C5_Reserve(land_size) == IF land_size >= 3 THEN 3 ELSE IF land_size = 2 THEN 5 ELSE 8

\* the crops recommend_crop can choose among
C5_Candidates(market_analysis) ==
    IF "crops" \in DOMAIN market_analysis
    THEN {market_analysis.crops[i] : i \in 1..Len(market_analysis.crops)}
    ELSE {}

\* C5: recommend_crop never returns a crop whose waterCost exceeds
\* available_water - reserve (reserve 3 for >= 3 empty plots, 5 for 2, 8 for <= 1);
\* it returns none when available_water is below the reserve or no candidate is
\* affordable; and the crop of a plan's plant action obeys the same limit, with the
\* snapshot's water and number of empty plots.
C5_WithinAffordableWater ==
    /\ ret.op = "recommend_crop" =>
          LET limit == ret.available_water - C5_Reserve(ret.land_size)
          IN  /\ ret.value # None => ret.value.waterCost <= limit
              /\ ret.available_water < C5_Reserve(ret.land_size) => ret.value = None
              /\ (\A c \in C5_Candidates(ret.market_analysis) : c.waterCost > limit)
                    => ret.value = None
    /\ Planned =>
          \A i \in ActionsOfType({"plant"}) :
              PlanActions[i].crop.waterCost
                  <= profile.score - C5_Reserve(Cardinality(EmptyCells))

\* recommend_crop returning a crop that takes all the water above the reserve, for
\* three empty plots (11 - 3 = 8)
C5_Witness ==
    /\ ret.op = "recommend_crop" /\ ret.land_size = 3 /\ ret.available_water = 11
    /\ ret.value # None
    /\ ret.value.waterCost = 8

-----------------------------------------------------------------------------
(* C6 *)

\* what a call of get_farming_plan gave, timestamps left out: the error raised, or the
\* ordered action list
C6_Outcome(r) == IF r.raised = "" THEN <<"", r.value.actions>> ELSE <<r.raised, <<>>>>

\* C6: two calls of get_farming_plan in a row on one strategy object, with the same
\* profile, land and crops snapshots, give the same ordered action list, however many
\* analyses the object has made before; and every plan is the plan a new strategy
\* object gives for the snapshots (the market history has no influence).
C6_SamePlanAgain ==
    /\ [](ret.op = "get_farming_plan" =>
             C6_Outcome(ret) =
                 C6_Outcome(get_farming_plan(profile, land_data, crops_data, <<>>, 0)))
    /\ [][(/\ ret.op = "get_farming_plan" /\ ret'.op = "get_farming_plan"
           /\ <<profile, land_data, crops_data>>' = <<profile, land_data, crops_data>>)
             => C6_Outcome(ret') = C6_Outcome(ret)]_vars

\* a second plan, made with one analysis in the history, that plants and expands
C6_Witness ==
    /\ Planned /\ now = 2 /\ Len(market_history) = 2
    /\ ActionsOfType({"plant"}) # {}
    /\ ActionsOfType({"expand_land"}) # {}

-----------------------------------------------------------------------------
(* C7 *)

\* C7: market_history never holds more than 60 entries, and it is the most recent
\* analyses made, in call order: with every call analysing (a non-empty crop list),
\* after `now` calls it holds the analyses of the calls now - len + 1 .. now, where
\* len is the smaller of now and 60; a call that analyses nothing leaves it alone.
C7_RollingHistory ==
    /\ Len(market_history) <= 60
    /\ IF HasCrops
       THEN /\ Len(market_history) = (IF now < 60 THEN now ELSE 60)
            /\ \A i \in 1..Len(market_history) :
                  /\ market_history[i].timestamp = now - Len(market_history) + i
                  /\ market_history[i].crops = crops_data.crops
       ELSE market_history = <<>>

\* the history after more than 60 analyses: full, its oldest entry evicted
C7_Witness ==
    /\ now > 61
    /\ Len(market_history) = 60
    /\ market_history[1].timestamp = now - 59
    /\ market_history[60].timestamp = now

-----------------------------------------------------------------------------
(* C8 *)

\* C8 as claimed: with an empty crop list in the crops snapshot, analyze_market returns
\* an analysis without opportunities and get_farming_plan returns a plan; neither raises.
C8_EmptyCropListHandled ==
    ("crops" \in DOMAIN crops_data /\ Len(crops_data.crops) = 0
        /\ ret.op \in {"analyze_market", "get_farming_plan"})
        => ret.raised = ""

-----------------------------------------------------------------------------
(* C9 *)

\* C9: for unclaimed land a plan holds no harvest, no plant and no expand_land action,
\* whatever the grid holds: it is exactly one claim_land action of priority HIGH when
\* water >= 5 (the claim cost), and empty when water < 5.
C9_UnclaimedLand ==
    (Planned /\ ~land_data.landClaimed) =>
        /\ ActionsOfType({"harvest", "plant", "expand_land"}) = {}
        /\ IF profile.score >= 5
           THEN /\ Len(PlanActions) = 1
                /\ PlanActions[1].type = "claim_land"
                /\ PlanActions[1].priority = "HIGH"
           ELSE PlanActions = <<>>

\* the claim of unclaimed land whose grid holds an empty cell and a mature one
C9_Witness ==
    /\ Planned /\ ~land_data.landClaimed
    /\ EmptyCells # {} /\ MatureCells # {}
    /\ profile.score >= 5
    /\ Len(PlanActions) = 1 /\ PlanActions[1].type = "claim_land"

-----------------------------------------------------------------------------
(* C10 *)

\* scenario 2: claimed grid [[3,0],[0,0]], code 3 a known crop, water 50,
\* expansion cost 30, tileCount 4
C10_Scenario ==
    /\ land_data = Land(TRUE, 4, << <<3, 0>>, <<0, 0>> >>, 30)
    /\ profile.score = 50
    /\ HasCrops /\ \E k \in 1..Len(crops_data.crops) : crops_data.crops[k].id = 3

\* C10: in every plan each harvest action stands before every plant, expand_land and
\* claim_land action; in scenario 2 the first action is the harvest at (0,0), CRITICAL.
C10_HarvestFirst ==
    Planned =>
        /\ \A i \in ActionsOfType({"harvest"}) :
              \A j \in ActionsOfType({"plant", "expand_land", "claim_land"}) : i < j
        /\ C10_Scenario =>
              /\ Len(PlanActions) >= 1
              /\ PlanActions[1].type = "harvest"
              /\ PlanActions[1].row = 0 /\ PlanActions[1].col = 0
              /\ PlanActions[1].priority = "CRITICAL"

\* the plan of scenario 2: the harvest, then an expand_land and a plant action
C10_Witness ==
    /\ Planned /\ C10_Scenario
    /\ PlanActions[1].type = "harvest"
    /\ ActionsOfType({"expand_land"}) # {}
    /\ ActionsOfType({"plant"}) # {}

-----------------------------------------------------------------------------
(* C11 *)

\* claimed 2x2 land of empty plots, tileCount 4, nextExpansionCost 30, water 25, and the
\* single crop Wheat (waterCost 8, efficiency 0.40)
C11_Scenario ==
    /\ profile = Profile(25)
    /\ land_data = Land(TRUE, 4, << <<0, 0>>, <<0, 0>> >>, 30)
    /\ "crops" \in DOMAIN crops_data /\ crops_data.crops = <<Wheat>>

\* C11: for claimed land with grid [[0,0],[0,0]], tileCount 4, nextExpansionCost 30,
\* water 25 and a single crop costing 8 water with efficiency 0.4, the plan is exactly
\* one plant action, at (0,0); it holds no harvest and no expand_land action.
C11_OnePlantOnly ==
    (Planned /\ C11_Scenario) =>
        /\ Len(PlanActions) = 1
        /\ PlanActions[1].type = "plant"
        /\ PlanActions[1].row = 0 /\ PlanActions[1].col = 0
        /\ PlanActions[1].crop = Wheat
        /\ ActionsOfType({"harvest", "expand_land", "claim_land"}) = {}

\* the plan of the scenario has been returned, and it plants
C11_Witness ==
    /\ Planned /\ C11_Scenario
    /\ ActionsOfType({"plant"}) # {}

-----------------------------------------------------------------------------
(* C12 *)

\* no cell >= 2, no cell equal to 0, and should_expand_land false
C12_NothingToDo ==
    /\ MatureCells = {}
    /\ EmptyCells = {}
    /\ ~should_expand_land(profile, land_data)

\* C12: for any snapshot with no grid cell >= 2, no grid cell equal to 0 and
\* should_expand_land false, get_farming_plan returns an empty action list, on the
\* first call and on every repeated call.
C12_EmptyPlanEveryCall ==
    (Planned /\ C12_NothingToDo) => PlanActions = <<>>

\* a repeated call on claimed land full of growing crops has returned an empty plan
C12_Witness ==
    /\ Planned /\ C12_NothingToDo
    /\ now >= 2
    /\ ~Unclaimed(land_data)
    /\ Len(land_data.landData) = 2
    /\ PlanActions = <<>>

-----------------------------------------------------------------------------
(* C13 *)

\* the land snapshot has no nextExpansionCost
C13_CostMissing == "nextExpansionCost" \notin DOMAIN land_data

\* C13: when nextExpansionCost is missing from the land snapshot,
\* calculate_expansion_roi returns 0, and get_expansion_recommendation reports roi 0
\* with the reasoning "No expansion available".
C13_NoExpansionAvailable ==
    /\ (ret.op = "calculate_expansion_roi" /\ C13_CostMissing) => ret.value[1] = 0
    /\ (ret.op = "get_expansion_recommendation" /\ C13_CostMissing) =>
            /\ ret.value.roi[1] = 0
            /\ ret.value.reasoning.text = "No expansion available"

\* a recommendation has been made for claimed 2x2 land that names no cost, with
\* plenty of water
C13_Witness ==
    /\ ret.op = "get_expansion_recommendation"
    /\ C13_CostMissing
    /\ ~Unclaimed(land_data)
    /\ land_data.landTiles = 4
    /\ profile.score >= 130
    /\ ret.value.reasoning.text = "No expansion available"

-----------------------------------------------------------------------------
(* C14 *)

\* every background loop has left its while loop
C14_AllExited == \A t \in Threads : pc[t] = "exited"

\* with the event set, a loop that leaves its wait goes to the test of the loop
\* condition, and a loop that leaves the test has exited
C14_WakesAndExits ==
    \A t \in Threads :
        /\ (stop_event /\ pc[t] = "wait") => pc'[t] \in {"wait", "check"}
        /\ (stop_event /\ pc[t] = "check") => pc'[t] \in {"check", "exited"}

\* a loop that has started and not exited can take a step, wherever the others stand
C14_NeverBlocked ==
    \A t \in Threads : pc[t] \notin {"unstarted", "exited"} => ENABLED LoopStep(t)

\* C14: once the stop event is set, every background loop (water collection, token
\* refresh, farming cycle) eventually exits, given that its API calls return: a loop
\* in its wait wakes and exits, each loop begins at most one further iteration after
\* the event is set, and no loop waits for another.
C14_LoopsExit ==
    /\ stop_event ~> C14_AllExited
    /\ [][C14_WakesAndExits]_vars
    /\ [](\A t \in Threads : late[t] <= 1)
    /\ []C14_NeverBlocked

\* the event was set while the farming loop was between the test and its body: the
\* loop ran that iteration, and all three loops have exited
C14_Witness ==
    /\ stop_event
    /\ C14_AllExited
    /\ late["farming"] = 1
    /\ Len(attempted) = 1

-----------------------------------------------------------------------------
(* C15 *)

\* C15: under every interleaving of the water loop, the farming loop and the status
\* display, the statistics change by whole actions: a display that shows every
\* successful harvest so far also shows the credits of every one of them (no
\* partial update of a completed action is ever read).
C15_NoPartialUpdate ==
    display.crops_harvested = succeeded.crops_harvested =>
        display.total_credits_earned = succeeded.total_credits_earned

-----------------------------------------------------------------------------
(* C16 *)

\* the farming thread is inside _execute_farming_plan
C16_Executing == pc["farming"] \in {"execute", "count", "credit", "sleep"}

\* the counters the executor writes
C16_Counters == {"crops_planted", "crops_harvested", "land_expansions", "total_credits_earned"}

\* the actions tried so far in this cycle are the first ones of the plan, each once, in
\* order, each with its API call made
C16_OncePerAction ==
    /\ Len(attempted) <= Len(executing)
    /\ \A i \in 1..Len(attempted) : attempted[i].index = i /\ attempted[i].called
    /\ pc["farming"] = "execute" => Len(attempted) = action_index - 1
    /\ pc["farming"] \in {"count", "credit", "sleep"} => Len(attempted) = action_index

\* C16: in _execute_farming_plan an action whose API call returns an error-shaped
\* response or raises changes no statistics counter, and execution goes on with the
\* next action: every action of the plan is attempted exactly once per cycle whatever
\* the earlier actions came to, and once the executor has returned each counter
\* holds the number of successful calls.
C16_FailureSkipsCounter ==
    /\ C16_OncePerAction
    /\ ~C16_Executing =>
          /\ Len(attempted) = Len(executing)
          /\ \A c \in C16_Counters : stats[c] = succeeded[c]
    /\ (pc["farming"] = "sleep" /\ attempted[action_index].ended = "error") =>
          \A c \in C16_Counters : stats[c] = succeeded[c]

\* a plan of three actions has been executed: the first call raised, the second
\* returned an error, the third succeeded and is the only one counted
C16_Witness ==
    /\ pc["farming"] = "wait"
    /\ Len(attempted) = 3
    /\ attempted[1].ended = "raised"
    /\ attempted[2].ended = "error"
    /\ attempted[3].ended = "ok"
    /\ stats.crops_harvested = 0 /\ stats.land_expansions = 0 /\ stats.crops_planted = 1

-----------------------------------------------------------------------------
(* C17 *)

\* the snapshots with every field present: a missing number is 0, a missing flag is
\* false, a missing collection is empty, and a missing nextExpansionCost is `cost`
C17_FillProfile(prof) == [score |-> Get(prof, "score", 0)]

C17_FillLand(land, cost) ==
    [landClaimed       |-> Get(land, "landClaimed", FALSE),
     landTiles         |-> Get(land, "landTiles", 0),
     landData          |-> Get(land, "landData", <<>>),
     nextExpansionCost |-> Get(land, "nextExpansionCost", cost)]

C17_FillCrop(crop) ==
    [name        |-> crop.name,
     id          |-> Get(crop, "id", 0),
     waterCost   |-> Get(crop, "waterCost", 0),
     efficiency  |-> Get(crop, "efficiency", 0),
     marketPrice |-> Get(crop, "marketPrice", 0)]

\* a missing crop list stays missing: there is no crop to analyse or to plant
C17_FillCrops(crops_response) ==
    IF "crops" \notin DOMAIN crops_response THEN crops_response
    ELSE [crops |-> [i \in 1..Len(crops_response.crops) |->
                        C17_FillCrop(crops_response.crops[i])],
          marketInfo |->
              [averagePrice   |-> Get(Get(crops_response, "marketInfo", EmptyDict),
                                      "averagePrice", 0),
               bestEfficiency |-> Get(Get(crops_response, "marketInfo", EmptyDict),
                                      "bestEfficiency", 0)]]

\* what a plan asks for: type, priority, cell and crop name of each action, in order
C17_Shape(plan_actions) ==
    [i \in 1..Len(plan_actions) |->
        [type     |-> plan_actions[i].type,
         priority |-> plan_actions[i].priority,
         row      |-> Get(plan_actions[i], "row", -1),
         col      |-> Get(plan_actions[i], "col", -1),
         crop     |-> Get(Get(plan_actions[i], "crop", EmptyDict), "name", "")]]

\* the plan of the filled snapshots
C17_FilledPlan(cost) ==
    get_farming_plan(C17_FillProfile(profile), C17_FillLand(land_data, cost),
                     C17_FillCrops(crops_data), <<>>, 0)

\* some field the claim names is missing from the snapshots
C17_Partial ==
    \/ "score" \notin DOMAIN profile
    \/ {"landClaimed", "landTiles", "nextExpansionCost", "landData"} \ DOMAIN land_data # {}
    \/ {"crops", "marketInfo"} \ DOMAIN crops_data # {}
    \/ /\ "crops" \in DOMAIN crops_data
       /\ \E i \in 1..Len(crops_data.crops) :
              {"efficiency", "marketPrice", "waterCost", "id"} \ DOMAIN crops_data.crops[i] # {}

\* the claim as it stands: every missing number, nextExpansionCost too, counts as 0
C17_Original ==
    (ret.op = "get_farming_plan" /\ C17_Partial) =>
        /\ ret.raised = ""
        /\ C17_Shape(PlanActions) = C17_Shape(C17_FilledPlan(0).value.actions)

\* C17: get_farming_plan does not fail on a partial snapshot: with any of score,
\* landClaimed, landTiles, nextExpansionCost, landData, crops, marketInfo, or of a
\* crop's efficiency, marketPrice, waterCost, id missing it returns the plan of the
\* snapshot in which a missing number is 0 and a missing collection is empty, except
\* that a missing nextExpansionCost means that no expansion can be bought; without a
\* crop list nothing is planted.
C17_DegradesGracefully ==
    (ret.op = "get_farming_plan" /\ C17_Partial) =>
        /\ ret.raised = ""
        /\ C17_Shape(PlanActions) = C17_Shape(C17_FilledPlan(INF).value.actions)
        /\ "crops" \notin DOMAIN crops_data => ActionsOfType({"plant"}) = {}
        /\ "nextExpansionCost" \notin DOMAIN land_data => ActionsOfType({"expand_land"}) = {}

\* a plan made without landTiles, nextExpansionCost and marketInfo and with crops that
\* name no waterCost: the mature cell is harvested and a crop is planted for free
C17_Witness ==
    /\ Planned
    /\ "marketInfo" \notin DOMAIN crops_data
    /\ DOMAIN land_data \cap {"landTiles", "nextExpansionCost"} = {}
    /\ "landClaimed" \in DOMAIN land_data
    /\ "crops" \in DOMAIN crops_data
    /\ "waterCost" \notin DOMAIN crops_data.crops[1]
    /\ ActionsOfType({"harvest"}) # {}
    /\ ActionsOfType({"plant"}) # {}

-----------------------------------------------------------------------------
(* C18 *)

\* roi > p / 100 for the land snapshot, with roi = newTiles * 0.3 * 24 / (cost * 0.02)
\* = 360 * newTiles / cost, and roi = 0 when the cost is 0
C18_RoiAbove(p) ==
    LET tiles    == land_data.landTiles
        cost     == land_data.nextExpansionCost
        newTiles == CASE tiles = 1 -> 3
                      [] tiles = 4 -> 5
                      [] tiles = 9 -> 7
                      [] OTHER -> Max(1, tiles \div 2)
    IN  cost > 0 /\ 36000 * newTiles > p * cost

\* claimed land that names its expansion cost, and water that covers the cost
C18_Affordable ==
    /\ ~Unclaimed(land_data)
    /\ "nextExpansionCost" \in DOMAIN land_data
    /\ profile.score >= land_data.nextExpansionCost

\* C18: for claimed land with currentWater >= nextExpansionCost, should_expand_land
\* follows the tier table: tileCount = 1 -> water >= cost * 0.67; otherwise
\* tileCount <= 4 -> water >= cost + reserve and roi > 0.15; otherwise tileCount <= 9
\* -> water >= cost + 2 * reserve and roi > 0.25; otherwise water >= cost + 100 and
\* roi > 0.35, the reserve being MIN_WATER_RESERVE.
C18_TierTable ==
    (ret.op = "should_expand_land" /\ C18_Affordable) =>
        LET water == profile.score
            cost  == land_data.nextExpansionCost
            tiles == land_data.landTiles
        IN  ret.value =
                CASE tiles = 1 -> 100 * water >= 67 * cost
                  [] tiles # 1 /\ tiles <= 4 ->
                        water >= cost + MIN_WATER_RESERVE /\ C18_RoiAbove(15)
                  [] tiles > 4 /\ tiles <= 9 ->
                        water >= cost + 2 * MIN_WATER_RESERVE /\ C18_RoiAbove(25)
                  [] OTHER -> water >= cost + 100 /\ C18_RoiAbove(35)

\* 3x3 land, cost 30, water 31: one reserve short of the second tier, so no expansion
C18_Witness ==
    /\ ret.op = "should_expand_land" /\ C18_Affordable
    /\ land_data.landTiles = 9
    /\ land_data.nextExpansionCost = 30
    /\ profile.score = 31
    /\ ret.value = FALSE

-----------------------------------------------------------------------------
(* C19 *)

\* the opportunities of the analysis recommend_crop was given
C19_Opportunities == Get(ret.market_analysis, "opportunities", <<>>)

\* available_water - reserve, the reserve being 3 for three empty plots or more, 5 for
\* two, 8 otherwise (MIN_WATER_RESERVE is 1, below every floor)
C19_Budget ==
    ret.available_water -
        (IF ret.land_size >= 3 THEN 3 ELSE IF ret.land_size >= 2 THEN 5 ELSE 8)

\* the positions of the candidates whose waterCost fits the budget
C19_Fitting ==
    {i \in 1..Len(C19_Opportunities) : C19_Opportunities[i].crop.waterCost <= C19_Budget}

\* the (efficiency, marketPrice) pair of candidate i is below that of candidate j
C19_Below(i, j) ==
    LET a == C19_Opportunities[i].crop
        b == C19_Opportunities[j].crop
    IN  \/ a.efficiency < b.efficiency
        \/ a.efficiency = b.efficiency /\ a.marketPrice < b.marketPrice

\* C19: among the candidates whose waterCost fits within available_water - reserve,
\* recommend_crop returns the one with the greatest (efficiency, marketPrice) pair in
\* lexicographic order, and among several with that pair the one that comes first in
\* the opportunities list.
C19_BestFirstOfTies ==
    (ret.op = "recommend_crop" /\ C19_Budget >= 0 /\ C19_Fitting # {}) =>
        \E i \in C19_Fitting :
            /\ ret.value = C19_Opportunities[i].crop
            /\ \A j \in C19_Fitting : ~C19_Below(i, j)
            /\ \A j \in C19_Fitting : j < i => C19_Below(j, i)

\* Barley and Wheat tie on both keys and both fit: Barley, listed first, is returned
C19_Witness ==
    /\ ret.op = "recommend_crop"
    /\ Len(C19_Opportunities) = 2
    /\ C19_Opportunities[1].crop = Barley
    /\ C19_Opportunities[2].crop = Wheat
    /\ C19_Fitting = {1, 2}
    /\ ret.value = Barley

-----------------------------------------------------------------------------
(* C20 *)

\* claimed land with no harvestable cell and at least one empty plot
C20_RoomAndNoHarvest ==
    /\ ~Unclaimed(land_data)
    /\ MatureCells = {}
    /\ EmptyCells # {}

\* C20: for claimed land with no harvestable cell and at least one empty plot, the
\* plan contains an expand_land action only if current water >= nextExpansionCost + 20
\* and should_expand_land holds (and it does contain one then); otherwise expansion
\* is suppressed for this cycle.
C20_ExpandNeedsHeadroom ==
    (Planned /\ C20_RoomAndNoHarvest) =>
        (ActionsOfType({"expand_land"}) # {}
            <=> /\ should_expand_land(profile, land_data)
                /\ profile.score >= Get(land_data, "nextExpansionCost", INF) + 20)

\* should_expand_land holds with water 49 and cost 30, yet the plan does not expand
C20_Witness ==
    /\ Planned /\ C20_RoomAndNoHarvest
    /\ should_expand_land(profile, land_data)
    /\ profile.score = 49
    /\ Get(land_data, "nextExpansionCost", INF) = 30
    /\ ActionsOfType({"expand_land"}) = {}
    /\ ActionsOfType({"plant"}) # {}

-----------------------------------------------------------------------------
(* C21 *)

\* the harvestable cells get_farming_plan finds in the snapshot
Harvestable == find_harvestable_crops(land_data, crops_data)

\* claimed land of one tile with at least one harvestable cell
C21_OneTileWithHarvest ==
    /\ ~Unclaimed(land_data)
    /\ Get(land_data, "landTiles", 0) = 1
    /\ Len(Harvestable) > 0

\* currentWater + harvestableCount * 0.15 * 50 >= nextExpansionCost, doubled
C21_ProjectionClears ==
    2 * Get(profile, "score", 0) + 15 * Len(Harvestable)
        >= 2 * Get(land_data, "nextExpansionCost", INF)

\* C21: for claimed land with tileCount = 1 and at least one harvestable cell, when
\* should_expand_land holds the plan contains expand_land only if
\* currentWater + harvestableCount * 0.15 * 50 >= nextExpansionCost (and it does
\* contain one then); when the projected total falls short no expand_land action
\* is emitted.
C21_ExpandOnlyIfProjectionClears ==
    (Planned /\ C21_OneTileWithHarvest /\ should_expand_land(profile, land_data)) =>
        (ActionsOfType({"expand_land"}) # {} <=> C21_ProjectionClears)

\* a 1-tile farm with a harvestable cell whose plan expands after the harvest
C21_Witness ==
    /\ Planned /\ C21_OneTileWithHarvest
    /\ should_expand_land(profile, land_data)
    /\ C21_ProjectionClears
    /\ \E i \in ActionsOfType({"expand_land"}) :
          PlanActions[i].description = "Expand after harvest - will have enough water"
    /\ ActionsOfType({"harvest"}) # {}

-----------------------------------------------------------------------------
(* C22 *)

\* the empty plots of the snapshot: the cells equal to 0 of claimed land
C22_EmptyPlots == IF Unclaimed(land_data) THEN {} ELSE EmptyCells

\* rc is the first empty plot in row-major order
C22_FirstEmpty(rc) ==
    /\ rc \in C22_EmptyPlots
    /\ \A other \in C22_EmptyPlots :
          rc[1] < other[1] \/ (rc[1] = other[1] /\ rc[2] <= other[2])

\* what the recommender returns for the plan's water, empty plots and analysis
C22_Recommended ==
    recommend_crop(Get(profile, "score", 0), Cardinality(C22_EmptyPlots),
                   ret.value.market_summary)

\* C22: a plant action targets the first cell equal to 0 in row-major order of the
\* grid; its priority is LOW if the plan has a harvest action or if expansion is
\* approved while landTiles = 1, and MEDIUM otherwise; no plant action is emitted
\* when there is no empty plot or the recommender returns none.
C22_PlantFirstEmptyPlot ==
    Planned =>
        /\ \A i \in ActionsOfType({"plant"}) :
              /\ C22_FirstEmpty(<<PlanActions[i].row, PlanActions[i].col>>)
              /\ PlanActions[i].priority =
                    IF \/ ActionsOfType({"harvest"}) # {}
                       \/ /\ ActionsOfType({"expand_land"}) # {}
                          /\ Get(land_data, "landTiles", 0) = 1
                    THEN "LOW" ELSE "MEDIUM"
        /\ (C22_EmptyPlots = {} \/ ~Truthy(C22_Recommended)) =>
              ActionsOfType({"plant"}) = {}

\* planting on a 1-tile farm that expands in the same plan, with nothing to harvest
C22_Witness ==
    /\ Planned
    /\ ActionsOfType({"harvest"}) = {}
    /\ ActionsOfType({"expand_land"}) # {}
    /\ Get(land_data, "landTiles", 0) = 1
    /\ Cardinality(C22_EmptyPlots) > 1
    /\ \E i \in ActionsOfType({"plant"}) :
          /\ PlanActions[i].priority = "LOW"
          /\ C22_FirstEmpty(<<PlanActions[i].row, PlanActions[i].col>>)

-----------------------------------------------------------------------------
(* C23 *)

\* C23: every expand_land action of a plan has priority HIGH exactly when the
\* claimed grid has no cell equal to 0, and MEDIUM exactly when at least one empty
\* plot exists.
C23_ExpandPriority ==
    Planned =>
        \A i \in ActionsOfType({"expand_land"}) :
            /\ ~Unclaimed(land_data)
            /\ PlanActions[i].priority \in {"HIGH", "MEDIUM"}
            /\ PlanActions[i].priority = "HIGH" <=> EmptyCells = {}
            /\ PlanActions[i].priority = "MEDIUM" <=> EmptyCells # {}

\* a farm of several tiles without an empty plot, expanding at HIGH priority
C23_Witness ==
    /\ Planned
    /\ EmptyCells = {}
    /\ Cardinality(AllCells) > 1
    /\ \E i \in ActionsOfType({"expand_land"}) : PlanActions[i].priority = "HIGH"

-----------------------------------------------------------------------------
(* C24 *)

\* a call of calculate_expansion_roi has returned
RoiAsked == ret.op = "calculate_expansion_roi"

\* newTiles: 3 at 1 tile, 5 at 4, 7 at 9, max(1, floor(tileCount * 0.5)) otherwise
C24_NewTiles ==
    LET tiles == land_data.landTiles
    IN  CASE tiles = 1 -> 3
          [] tiles = 4 -> 5
          [] tiles = 9 -> 7
          [] OTHER -> IF tiles >= 2 THEN CHOOSE n \in 1..tiles : 2 * n <= tiles /\ tiles < 2 * n + 2
                      ELSE 1

\* C24: for a finite positive nextExpansionCost, calculate_expansion_roi equals
\* newTiles * 0.3 * 24 / (cost * 0.02) = 360 * newTiles / cost, where newTiles is 3 at
\* tileCount 1, 5 at tileCount 4, 7 at tileCount 9 and max(1, floor(tileCount * 0.5))
\* for every other tile count; for cost 0 the ROI is 0.
C24_RoiFormula ==
    (RoiAsked /\ "nextExpansionCost" \in DOMAIN land_data) =>
        /\ ret.value[2] > 0
        /\ land_data.nextExpansionCost > 0 =>
              ret.value[1] * land_data.nextExpansionCost = 360 * C24_NewTiles * ret.value[2]
        /\ land_data.nextExpansionCost = 0 => ret.value[1] = 0

\* the ROI of a 5-tile farm at cost 7: 2 new tiles, 720 / 7
C24_Witness ==
    /\ RoiAsked
    /\ land_data.landTiles = 5
    /\ "nextExpansionCost" \in DOMAIN land_data /\ land_data.nextExpansionCost = 7
    /\ ret.value[1] * 7 = 720 * ret.value[2]
    /\ ret.value[1] > 0

-----------------------------------------------------------------------------
(* C25 *)

\* the type of the action of the j-th attempt of the cycle
C25_TypeOf(j) == executing[attempted[j].index].type

\* C25: within one farming cycle the executor issues the API calls serially in
\* exactly the order of the plan's action list, one call per action (the j-th
\* attempt of the cycle is the call of the j-th action, and the next begins only
\* after it), so every harvest call of the cycle is made before any claim_land,
\* expand_land or plant call of that cycle.
C25_SerialInPlanOrder ==
    /\ Len(attempted) <= Len(executing)
    /\ \A j \in 1..Len(attempted) :
          /\ attempted[j].index = j
          /\ attempted[j].called
    /\ C16_Executing =>
          /\ action_index \in {Len(attempted), Len(attempted) + 1}
          /\ pc["farming"] \in {"count", "credit", "sleep"} => action_index = Len(attempted)
    /\ \A j, k \in 1..Len(attempted) :
          (j < k /\ C25_TypeOf(k) = "harvest") => C25_TypeOf(j) = "harvest"

\* a cycle that has called harvest, then expand_land, then plant
C25_Witness ==
    /\ Len(attempted) = 3
    /\ C25_TypeOf(1) = "harvest" /\ C25_TypeOf(2) = "expand_land" /\ C25_TypeOf(3) = "plant"
    /\ \A j \in 1..3 : attempted[j].called
    /\ pc["farming"] = "wait"

-----------------------------------------------------------------------------
(* C26 *)

\* the positions of the plan's land actions
C26_LandActions == ActionsOfType({"claim_land", "expand_land"})

\* C26: every plan contains at most one land action (claim_land or expand_land,
\* never both) and at most one plant action, and whenever a plan contains both a
\* land action and a plant action the land action comes first in the sorted list.
C26_OneLandActionFirst ==
    Planned =>
        /\ Cardinality(C26_LandActions) <= 1
        /\ Cardinality(ActionsOfType({"plant"})) <= 1
        /\ \A i \in C26_LandActions : \A j \in ActionsOfType({"plant"}) : i < j

\* a plan whose expand_land and plant actions have the same priority
C26_Witness ==
    /\ Planned
    /\ \E i \in ActionsOfType({"expand_land"}) : \E j \in ActionsOfType({"plant"}) :
          /\ PlanActions[i].priority = "MEDIUM"
          /\ PlanActions[j].priority = "MEDIUM"
          /\ i < j

-----------------------------------------------------------------------------
(* C27 *)

\* should_expand and expansion_reasoning as the plan computes them on the snapshot
C27_Decision ==
    ExpansionDecision(profile, land_data, Harvestable, find_empty_plots(land_data))

-----------------------------------------------------------------------------
(* C28 *)

\* the water the plan's land action costs: the claim cost or nextExpansionCost
C28_LandCost ==
    IF ActionsOfType({"claim_land"}) # {} THEN LAND_CLAIM_COST
    ELSE IF ActionsOfType({"expand_land"}) # {}
         THEN Get(land_data, "nextExpansionCost", INF)
         ELSE 0

\* the waterCost of the crop the plan plants
C28_CropCost ==
    IF ActionsOfType({"plant"}) = {} THEN 0
    ELSE LET j == CHOOSE j \in ActionsOfType({"plant"}) : TRUE
         IN  Get(PlanActions[j].crop, "waterCost", 0)

\* C28: the water spent by one plan is affordable from the snapshot it was computed
\* on: the cost of its land action (claim cost 5 or nextExpansionCost) plus the
\* waterCost of its planted crop never exceeds the profile's current water.
C28_PlanAffordable ==
    Planned => C28_LandCost + C28_CropCost <= Get(profile, "score", 0)

-----------------------------------------------------------------------------
(* C29 *)

\* a call of get_expansion_recommendation has returned
Recommended == ret.op = "get_expansion_recommendation"

\* C29: in every result of get_expansion_recommendation the should_expand flag
\* agrees with the reasoning: should_expand is true only when the reasoning is one
\* of the 'expand' messages, and it is false whenever the reasoning is 'No expansion
\* available' or 'Need N more water'.
C29_FlagAgreesWithReasoning ==
    Recommended =>
        /\ ret.value.should_expand =>
              ret.value.reasoning.text \in {"HIGH PRIORITY", "Good ROI"}
        /\ ret.value.reasoning.text \in {"No expansion available", "Need more water"} =>
              ~ret.value.should_expand

-----------------------------------------------------------------------------
(* C30 *)

\* the seconds waited after the k-th failed attempt (k from 0): 2^k
C30_Wait(k) == CASE k = 0 -> 1 [] k = 1 -> 2 [] k = 2 -> 4 [] k = 3 -> 8 [] k = 4 -> 16

\* the activations of _make_request under way or just over
C30_Requests == {requests[i] : i \in 1..Len(requests)}

\* C30: _make_request makes at most retry_count HTTP attempts: it returns the first
\* successful response without further attempts, waits 2^k seconds after the k-th
\* failed attempt (k from 0) before retrying, and raises after the last attempt
\* fails; an authenticated request whose token is invalid and whose refresh fails
\* raises without making any HTTP attempt.
C30_BoundedRetries ==
    \A r \in C30_Requests :
        /\ r.calls <= r.retry_count
        /\ r.calls \in {r.failed, r.failed + 1}
        /\ r.pc = "returned" <=> r.calls = r.failed + 1
        /\ \A k \in 1..Len(r.slept) : r.slept[k] = C30_Wait(k - 1)
        /\ Len(r.slept) = IF r.pc = "backoff" \/ r.raised = "RequestException"
                          THEN r.failed - 1 ELSE r.failed
        /\ (r.retry_count > 0 /\ r.failed = r.retry_count) =>
              (r.pc = "raised" /\ r.raised = "RequestException")
        /\ r.refreshed = "failed" =>
              (r.pc = "raised" /\ r.raised = "Failed to refresh token" /\ r.calls = 0)

\* a request of retry_count 4 has failed four times, with sleeps of 1, 2 and 4 seconds
C30_Witness ==
    \E r \in C30_Requests :
        /\ r.retry_count = 4 /\ r.calls = 4 /\ r.failed = 4
        /\ r.slept = <<1, 2, 4>>
        /\ r.pc = "raised" /\ r.raised = "RequestException"
        /\ r.auth_required /\ r.refreshed = "ok"

====
